---- MODULE Spec2Model ----
(***************************************************************************)
(* Model of the weltmann-shopware-mcp service: the CSV product catalog     *)
(* loaded at start-up and the search-product-catalog tool that filters it  *)
(* and decides between a product list and a model / variant prompt.        *)
(*                                                                         *)
(* A JavaScript string is a sequence of UTF-16 code units.  A code unit is *)
(* written as a one-letter TLA+ string ("a", "G", " ") or, outside ASCII,  *)
(* as its code point name ("U+00E9").                                      *)
(***************************************************************************)
EXTENDS Integers, Sequences, FiniteSets, TLC

(***************************************************************************)
(* Bounds                                                                  *)
(***************************************************************************)
\* largest number of data rows of the catalog CSV
MaxCatalog == 3

\* the elements of a sequence
Range(xs) == {xs[i] : i \in 1..Len(xs)}

(***************************************************************************)
(* Code units                                                              *)
(***************************************************************************)
UpperLetters == <<"A","B","C","D","E","F","G","H","I","J","K","L","M",
                  "N","O","P","Q","R","S","T","U","V","W","X","Y","Z">>
LowerLetters == <<"a","b","c","d","e","f","g","h","i","j","k","l","m",
                  "n","o","p","q","r","s","t","u","v","w","x","y","z">>
Digits == <<"0","1","2","3","4","5","6","7","8","9">>

\* E with acute, precomposed, upper and lower case; the combining acute accent
EAcuteUpper == "U+00C9"
EAcuteLower == "U+00E9"
CombiningAcute == "U+0301"

\* the code units of the model in increasing UTF-16 order
CodeUnits == <<" ">> \o Digits \o UpperLetters \o LowerLetters
             \o <<EAcuteUpper, EAcuteLower, CombiningAcute>>

\* the position of a code unit in that order
CodeUnitIndex == [c \in Range(CodeUnits) |-> CHOOSE i \in 1..Len(CodeUnits) : CodeUnits[i] = c]

CodeUnitOf(c) == CodeUnitIndex[c]

\* JavaScript `undefined` for an optional string argument or CSV field
Undefined == <<"<undefined>">>

\* what a JavaScript condition makes of a string: undefined and '' are falsy
Truthy(s) == s # Undefined /\ s # <<>>

\* a || b on strings
OrElse(a, b) == IF Truthy(a) THEN a ELSE b

\* the white space of \s and of String.prototype.trim
IsSpace(c) == c = " "

(***************************************************************************)
(* String primitives                                                       *)
(***************************************************************************)
\* the lower case of the code units that have one
LowerCaseOf ==
    [c \in Range(UpperLetters) \cup {EAcuteUpper} |->
        IF c = EAcuteUpper THEN EAcuteLower
        ELSE LowerLetters[CHOOSE i \in 1..26 : UpperLetters[i] = c]]

ToLowerUnit(c) == IF c \in DOMAIN LowerCaseOf THEN LowerCaseOf[c] ELSE c

\* String.prototype.toLowerCase
ToLowerCase(s) == [i \in 1..Len(s) |-> ToLowerUnit(s[i])]

RECURSIVE Flatten(_)
Flatten(ss) == IF ss = <<>> THEN <<>> ELSE Head(ss) \o Flatten(Tail(ss))

\* canonical decomposition of one code unit
DecomposeUnit(c) ==
    IF c = EAcuteLower THEN <<"e", CombiningAcute>>
    ELSE IF c = EAcuteUpper THEN <<"E", CombiningAcute>>
    ELSE <<c>>

\* String.prototype.normalize('NFD')
NFD(s) == Flatten([i \in 1..Len(s) |-> DecomposeUnit(s[i])])

\* the range [U+0300-U+036F]
IsCombiningMark(c) == c = CombiningAcute

\* replace(/[U+0300-U+036F]/g, '')
StripCombiningMarks(s) == SelectSeq(s, LAMBDA c : ~IsCombiningMark(c))

\* normalizeText: (text ?? '').toLowerCase().normalize('NFD').replace(marks, '')
normalizeText(text) ==
    StripCombiningMarks(NFD(ToLowerCase(IF text = Undefined THEN <<>> ELSE text)))

RECURSIVE TrimStart(_)
TrimStart(s) ==
    IF s # <<>> /\ IsSpace(Head(s)) THEN TrimStart(Tail(s)) ELSE s

RECURSIVE TrimEnd(_)
TrimEnd(s) ==
    IF s # <<>> /\ IsSpace(s[Len(s)]) THEN TrimEnd(SubSeq(s, 1, Len(s) - 1)) ELSE s

\* String.prototype.trim
Trim(s) == TrimEnd(TrimStart(s))

\* s?.trim()
OptionalTrim(s) == IF s = Undefined THEN Undefined ELSE Trim(s)

\* String.prototype.split(/\s+/): the pieces between maximal runs of white
\* space, an empty piece before a leading and after a trailing run
RECURSIVE SplitFrom(_, _, _)
SplitFrom(s, i, cur) ==
    IF i > Len(s) THEN <<cur>>
    ELSE IF IsSpace(s[i])
         THEN IF i > 1 /\ IsSpace(s[i - 1])
              THEN SplitFrom(s, i + 1, cur)
              ELSE <<cur>> \o SplitFrom(s, i + 1, <<>>)
         ELSE SplitFrom(s, i + 1, Append(cur, s[i]))

SplitWhitespace(s) == SplitFrom(s, 1, <<>>)

\* String.prototype.includes
Includes(hay, needle) ==
    \E i \in 0..(Len(hay) - Len(needle)) : \A j \in 1..Len(needle) : hay[i + j] = needle[j]

\* Array.prototype.join
RECURSIVE Join(_, _)
Join(parts, sep) ==
    IF parts = <<>> THEN <<>>
    ELSE IF Len(parts) = 1 THEN parts[1]
    ELSE parts[1] \o sep \o Join(Tail(parts), sep)

\* Array.prototype.slice(0, n)
Slice(xs, n) == SubSeq(xs, 1, IF n < Len(xs) THEN n ELSE Len(xs))

\* [...new Set(xs)]: the distinct elements in order of first occurrence
RECURSIVE Distinct(_)
Distinct(xs) ==
    IF xs = <<>> THEN <<>>
    ELSE LET init == Distinct(SubSeq(xs, 1, Len(xs) - 1))
             last == xs[Len(xs)]
         IN  IF last \in Range(init) THEN init ELSE Append(init, last)

(***************************************************************************)
(* Sorting                                                                 *)
(***************************************************************************)
\* a < b in the order of Array.prototype.sort() without a comparator:
\* code unit by code unit, a proper prefix first
RECURSIVE CodeUnitLess(_, _)
CodeUnitLess(a, b) ==
    IF b = <<>> THEN FALSE
    ELSE IF a = <<>> THEN TRUE
    ELSE IF Head(a) = Head(b) THEN CodeUnitLess(Tail(a), Tail(b))
    ELSE CodeUnitOf(Head(a)) < CodeUnitOf(Head(b))

\* collation of String.prototype.localeCompare (root collation): white space
\* before digits before letters; a letter's case and accent count only when
\* the strings are equal without them, the accent before the case, lower
\* case before upper case
PrimaryWeight(c) == CodeUnitOf(ToLowerUnit(c))

PrimaryKey(s) ==
    LET base == StripCombiningMarks(NFD(s))
    IN  [i \in 1..Len(base) |-> PrimaryWeight(base[i])]

\* the accent weights of a decomposed string, one for each of its code
\* units: the common weight for a letter, digit or space, a higher one for a
\* combining mark, wherever the mark stands
AccentKeyFrom(d) ==
    [i \in 1..Len(d) |-> IF IsCombiningMark(d[i]) THEN 1 ELSE 0]

SecondaryKey(s) == AccentKeyFrom(NFD(s))

TertiaryKey(s) ==
    LET base == StripCombiningMarks(NFD(s))
    IN  [i \in 1..Len(base) |-> IF ToLowerUnit(base[i]) = base[i] THEN 0 ELSE 1]

RECURSIVE KeyLess(_, _)
KeyLess(a, b) ==
    IF b = <<>> THEN FALSE
    ELSE IF a = <<>> THEN TRUE
    ELSE IF Head(a) = Head(b) THEN KeyLess(Tail(a), Tail(b))
    ELSE Head(a) < Head(b)

\* a.localeCompare(b) < 0
LocaleLess(a, b) ==
    IF PrimaryKey(a) # PrimaryKey(b) THEN KeyLess(PrimaryKey(a), PrimaryKey(b))
    ELSE IF SecondaryKey(a) # SecondaryKey(b) THEN KeyLess(SecondaryKey(a), SecondaryKey(b))
    ELSE KeyLess(TertiaryKey(a), TertiaryKey(b))

\* Array.prototype.sort is stable: x goes after every element that is not
\* greater than it.  uniqueModels / uniqueVariants: strings, .sort()
RECURSIVE InsertByCodeUnit(_, _)
InsertByCodeUnit(sorted, x) ==
    IF sorted = <<>> THEN <<x>>
    ELSE IF CodeUnitLess(x, Head(sorted)) THEN <<x>> \o sorted
    ELSE <<Head(sorted)>> \o InsertByCodeUnit(Tail(sorted), x)

RECURSIVE SortByCodeUnit(_)
SortByCodeUnit(xs) ==
    IF xs = <<>> THEN <<>>
    ELSE InsertByCodeUnit(SortByCodeUnit(SubSeq(xs, 1, Len(xs) - 1)), xs[Len(xs)])

\* modelVariantMap entries: .sort(([a], [b]) => a.localeCompare(b))
RECURSIVE InsertByModel(_, _)
InsertByModel(sorted, x) ==
    IF sorted = <<>> THEN <<x>>
    ELSE IF LocaleLess(x.model, Head(sorted).model) THEN <<x>> \o sorted
    ELSE <<Head(sorted)>> \o InsertByModel(Tail(sorted), x)

RECURSIVE SortByModel(_)
SortByModel(xs) ==
    IF xs = <<>> THEN <<>>
    ELSE InsertByModel(SortByModel(SubSeq(xs, 1, Len(xs) - 1)), xs[Len(xs)])

(***************************************************************************)
(* search-product-catalog: fitment arguments                               *)
(***************************************************************************)
\* vehicleText.trim().split(/\s+/), taken only when vehicleText is truthy
vehicleParts(args) ==
    IF Truthy(args.vehicleText) THEN SplitWhitespace(Trim(args.vehicleText)) ELSE <<>>

\* the first token of vehicleText taken before the structured brand
parsedBrand_TextFirst(args) ==
    LET parts == vehicleParts(args)
    IN  OptionalTrim(IF Len(parts) >= 2 THEN OrElse(parts[1], args.vehicleBrand)
                     ELSE args.vehicleBrand)

\* the fields after the vehicleText block and the three ?.trim() calls
parsedBrand(args) ==
    LET parts == vehicleParts(args)
    IN  OptionalTrim(IF Len(parts) >= 2 THEN OrElse(args.vehicleBrand, parts[1])
                     ELSE args.vehicleBrand)

parsedModel(args) ==
    LET parts == vehicleParts(args)
    IN  OptionalTrim(IF Len(parts) >= 2 THEN OrElse(args.vehicleModel, parts[2])
                     ELSE args.vehicleModel)

\* the variant joined from the second token on
parsedVariant_SliceFromModel(args) ==
    LET parts == vehicleParts(args)
    IN  OptionalTrim(IF Len(parts) >= 2 /\ ~Truthy(args.vehicleVariant) /\ Len(parts) > 2
                     THEN Join(SubSeq(parts, 2, Len(parts)), <<" ">>)
                     ELSE args.vehicleVariant)

parsedVariant(args) ==
    LET parts == vehicleParts(args)
    IN  OptionalTrim(IF Len(parts) >= 2 /\ ~Truthy(args.vehicleVariant) /\ Len(parts) > 2
                     THEN Join(SubSeq(parts, 3, Len(parts)), <<" ">>)
                     ELSE args.vehicleVariant)

(***************************************************************************)
(* search-product-catalog: the filter chain                                *)
(***************************************************************************)
\* the words of the name without the filter on their length
searchWords_KeepShort(name) ==
    SplitWhitespace(ToLowerCase(name))

\* name.toLowerCase().split(/\s+/).filter(word => word.length > 1)
searchWords(name) ==
    SelectSeq(SplitWhitespace(ToLowerCase(name)), LAMBDA word : Len(word) > 1)

\* NameFilter with .some in place of .every: a product passes on any one word
NameFilter_AnyWord(products, name) ==
    LET words == searchWords(name)
    IN  SelectSeq(products, LAMBDA p :
            LET productNameLower == normalizeText(p.productName)
            IN  \E i \in 1..Len(words) : Includes(productNameLower, ToLowerCase(words[i])))

\* the name filter: a product must contain every word of the query
NameFilter(products, name) ==
    LET words == searchWords(name)
    IN  SelectSeq(products, LAMBDA p :
            LET productNameLower == normalizeText(p.productName)
            IN  \A i \in 1..Len(words) : Includes(productNameLower, ToLowerCase(words[i])))

BrandFilter(hits, brand) ==
    LET normalizedBrand == normalizeText(brand)
    IN  IF normalizedBrand # <<>>
        THEN SelectSeq(hits, LAMBDA p : Includes(normalizeText(p.vehicleBrand), normalizedBrand))
        ELSE hits

\* ModelFilter with === in place of .includes
ModelFilter_Exact(hits, model) ==
    LET normalizedModel == normalizeText(model)
    IN  IF normalizedModel # <<>>
        THEN SelectSeq(hits, LAMBDA p : normalizeText(p.vehicleModel) = normalizedModel)
        ELSE hits

ModelFilter(hits, model) ==
    LET normalizedModel == normalizeText(model)
    IN  IF normalizedModel # <<>>
        THEN SelectSeq(hits, LAMBDA p : Includes(normalizeText(p.vehicleModel), normalizedModel))
        ELSE hits

baseVariantTerms ==
    << <<"s","t","a","n","d","a","r","d">>,
       <<"b","a","s","e">>,
       <<"b","a","s","i","c">>,
       <<"b","a","s","e"," ","v","a","r","i","a","n","t">> >>

isBaseVariantRequest(normalizedVariant) ==
    \E i \in 1..Len(baseVariantTerms) :
        Includes(normalizedVariant, normalizeText(baseVariantTerms[i]))

\* !p.vehicleVariant || !p.vehicleVariant.trim()
IsBlank(s) == ~Truthy(s) \/ ~Truthy(Trim(s))

\* VariantFilter without the base-variant branch: always the substring match
VariantFilter_SubstringOnly(hits, variant) ==
    IF Truthy(variant)
    THEN LET normalizedVariant == normalizeText(variant)
         IN  IF normalizedVariant # <<>>
             THEN SelectSeq(hits, LAMBDA p :
                      Includes(normalizeText(p.vehicleVariant), normalizedVariant))
             ELSE hits
    ELSE hits

VariantFilter(hits, variant) ==
    IF Truthy(variant)
    THEN LET normalizedVariant == normalizeText(variant)
         IN  IF normalizedVariant # <<>>
             THEN IF isBaseVariantRequest(normalizedVariant)
                  THEN SelectSeq(hits, LAMBDA p : IsBlank(p.vehicleVariant))
                  ELSE SelectSeq(hits, LAMBDA p :
                           Includes(normalizeText(p.vehicleVariant), normalizedVariant))
             ELSE hits
    ELSE hits

\* the records left after the name, brand and model filters
FitmentHits(products, args) ==
    ModelFilter(BrandFilter(NameFilter(products, args.name), parsedBrand(args)),
                parsedModel(args))

\* the records left after all four filters
Hits(products, args) == VariantFilter(FitmentHits(products, args), parsedVariant(args))

\* x ?? ''
OrEmpty(s) == IF s = Undefined THEN <<>> ELSE s

\* the projection of a catalog record into the response
ProductView(p) ==
    [productNumber  |-> p.productNumber,
     name           |-> p.productName,
     vehicleBrand   |-> OrEmpty(p.vehicleBrand),
     vehicleModel   |-> OrEmpty(p.vehicleModel),
     vehicleVariant |-> OrEmpty(p.vehicleVariant)]

\* the hits cut to the limit before they are mapped and counted
allProductsOf_Capped(products, args) ==
    LET hits == Hits(products, args)
        n == IF args.limit < 1 THEN 20 ELSE args.limit
    IN  [i \in 1..(IF n < Len(hits) THEN n ELSE Len(hits)) |-> ProductView(hits[i])]

\* the hits mapped back to front
allProductsOf_Reversed(products, args) ==
    LET hits == Hits(products, args)
    IN  [i \in 1..Len(hits) |-> ProductView(hits[Len(hits) + 1 - i])]

\* hits.map(p => ({ ... }))
allProductsOf(products, args) ==
    LET hits == Hits(products, args)
    IN  [i \in 1..Len(hits) |-> ProductView(hits[i])]

\* the absent limit argument.  The input schema admits a number or nothing,
\* so the handler's parseInt branch for a string limit is never taken.
NoLimit == -1

\* Math.min(Math.max(parsedLimit ?? 20, 1), 100)
DefaultLimit == 20
MinLimit == 1
MaxLimit == 100

\* the default in place of the limit of the call
safeLimit_AlwaysDefault(limit) == DefaultLimit

safeLimit(limit) ==
    LET parsedLimit == IF limit = NoLimit THEN DefaultLimit ELSE limit
        atLeast == IF parsedLimit > MinLimit THEN parsedLimit ELSE MinLimit
    IN  IF atLeast < MaxLimit THEN atLeast ELSE MaxLimit

(***************************************************************************)
(* search-product-catalog: model and variant prompts                       *)
(***************************************************************************)
\* the label pushed for a blank variant
BaseVariantLabel == <<"b","a","s","e"," ","v","a","r","i","a","n","t">>

\* uniqueModels without the Set: one entry per product
uniqueModels_NotDistinct(allProducts) ==
    SortByCodeUnit(SelectSeq([i \in 1..Len(allProducts) |-> allProducts[i].vehicleModel],
                             LAMBDA model : Truthy(model) /\ Len(Trim(model)) > 0))

\* [...new Set(allProducts.map(p => p.vehicleModel))].filter(non-blank).sort()
uniqueModels(allProducts) ==
    SortByCodeUnit(SelectSeq(Distinct([i \in 1..Len(allProducts) |-> allProducts[i].vehicleModel]),
                             LAMBDA model : Truthy(model) /\ Len(Trim(model)) > 0))

\* modelVariantMap after the forEach, its entries in insertion order
modelVariantMap(allProducts) ==
    LET models == Distinct([i \in 1..Len(allProducts) |-> allProducts[i].vehicleModel])
        ofModel(m) == SelectSeq(allProducts, LAMBDA p : p.vehicleModel = m)
        named(m) == SelectSeq(ofModel(m), LAMBDA p : ~IsBlank(p.vehicleVariant))
    IN  [k \in 1..Len(models) |->
            [model          |-> models[k],
             variants       |-> Distinct([i \in 1..Len(named(models[k])) |->
                                             named(models[k])[i].vehicleVariant]),
             hasBaseVariant |-> \E i \in 1..Len(ofModel(models[k])) :
                                    IsBlank(ofModel(models[k])[i].vehicleVariant)]]

\* ModelVariantList without the push of 'base variant'
ModelVariantList_NoBaseLabel(modelData) == modelData.variants

\* the variantList built for one map entry
ModelVariantList(modelData) ==
    (IF modelData.hasBaseVariant THEN <<BaseVariantLabel>> ELSE <<>>) \o modelData.variants

\* the sorted entries, each with its variantList
modelEntries(allProducts) ==
    LET sorted == SortByModel(modelVariantMap(allProducts))
    IN  [k \in 1..Len(sorted) |->
            [model |-> sorted[k].model, variantList |-> ModelVariantList(sorted[k])]]

\* ` ${model}${variantText}`
ModelLine(entry) ==
    <<" ">> \o entry.model
    \o (IF Len(entry.variantList) > 0
        THEN <<" ", "(">> \o Join(entry.variantList, <<",", " ">>) \o <<")">>
        ELSE <<>>)

modelList(allProducts) ==
    LET entries == modelEntries(allProducts)
    IN  Join([k \in 1..Len(entries) |-> ModelLine(entries[k])], <<"\n">>)

\* singleModelVariantList without the push of 'base variant'
singleModelVariantList_NoBaseLabel(allProducts) ==
    SortByCodeUnit(SelectSeq(
        Distinct([i \in 1..Len(allProducts) |-> allProducts[i].vehicleVariant]),
        LAMBDA variant : Truthy(variant) /\ Truthy(Trim(variant))))

\* variantList of the single-model branch
singleModelVariantList(allProducts) ==
    LET hasBaseVariant == \E i \in 1..Len(allProducts) : IsBlank(allProducts[i].vehicleVariant)
        uniqueVariants ==
            SortByCodeUnit(SelectSeq(
                Distinct([i \in 1..Len(allProducts) |-> allProducts[i].vehicleVariant]),
                LAMBDA variant : Truthy(variant) /\ Truthy(Trim(variant))))
    IN  (IF hasBaseVariant THEN <<BaseVariantLabel>> ELSE <<>>) \o uniqueVariants

variantDisplay(variantList) ==
    Join([k \in 1..Len(variantList) |-> <<" ">> \o variantList[k]], <<"\n">>)

\* DisambiguationGuard without the test of parsedBrand
DisambiguationGuard_WithoutBrand(args, total) ==
    /\ ~Truthy(parsedVariant(args))
    /\ total > 0
    /\ Truthy(parsedModel(args))

\* !parsedVariant && total > 0 && parsedBrand && parsedModel
DisambiguationGuard(args, total) ==
    /\ ~Truthy(parsedVariant(args))
    /\ total > 0
    /\ Truthy(parsedBrand(args))
    /\ Truthy(parsedModel(args))

\* how the handler leaves: "models" and "variants" are the two prompts,
\* "many", "one" and "none" the three formats of a result
Outcome(products, args) ==
    LET allProducts == allProductsOf(products, args)
        total == Len(allProducts)
    IN  IF DisambiguationGuard(args, total) /\ Len(uniqueModels(allProducts)) > 1
        THEN "models"
        ELSE IF /\ DisambiguationGuard(args, total)
                /\ Len(uniqueModels(allProducts)) = 1
                /\ Len(singleModelVariantList(allProducts)) > 1
        THEN "variants"
        ELSE IF total > 1 THEN "many"
        ELSE IF total = 1 THEN "one"
        ELSE "none"

(***************************************************************************)
(* search-product-catalog: result formatting                               *)
(***************************************************************************)
ManufacturerPrefix == <<"j", "a", "e", "g", "e", "r", " ", "a", "u", "t", "o", "m", "o", "t", "i", "v", "e">>

\* p.name.replace(/^JAEGER automotive\s*/i, '').trim()
cleanName(name) ==
    LET n == Len(ManufacturerPrefix)
    IN  IF Len(name) >= n /\ ToLowerCase(SubSeq(name, 1, n)) = ManufacturerPrefix
        THEN Trim(SubSeq(name, n + 1, Len(name)))
        ELSE Trim(name)

\* the three fields with their separators, not trimmed
vehicleInfo_Untrimmed(p) ==
    p.vehicleBrand \o <<" ">> \o p.vehicleModel \o <<" ">> \o p.vehicleVariant

\* `${p.vehicleBrand} ${p.vehicleModel} ${p.vehicleVariant}`.trim()
vehicleInfo(p) ==
    Trim(p.vehicleBrand \o <<" ">> \o p.vehicleModel \o <<" ">> \o p.vehicleVariant)

\* `${cleanName} for ${vehicleInfo}`
displayKey(p) == cleanName(p.name) \o <<" ", "f", "o", "r", " ">> \o vehicleInfo(p)

\* one entry per product, nothing merged
productGroups_Ungrouped(productsForResponse) ==
    [k \in 1..Len(productsForResponse) |->
        [displayName    |-> displayKey(productsForResponse[k]),
         productNumbers |-> <<productsForResponse[k].productNumber>>]]

\* productGroups after the forEach, its entries in insertion order
productGroups(productsForResponse) ==
    LET keys == Distinct([i \in 1..Len(productsForResponse) |-> displayKey(productsForResponse[i])])
        inGroup(key) == SelectSeq(productsForResponse, LAMBDA p : displayKey(p) = key)
    IN  [k \in 1..Len(keys) |->
            [displayName    |-> keys[k],
             productNumbers |-> [i \in 1..Len(inGroup(keys[k])) |->
                                    inGroup(keys[k])[i].productNumber]]]

\* ` ${displayName} (${numbersList})`, one line per group
variantLines(productsForResponse) ==
    LET groups == productGroups(productsForResponse)
    IN  Join([k \in 1..Len(groups) |->
                 <<" ">> \o groups[k].displayName \o <<" ", "(">>
                 \o Join(groups[k].productNumbers, <<",", " ">>) \o <<")">>],
             <<"\n">>)

\* a non-negative number in a template literal
RECURSIVE NumberText(_)
NumberText(n) ==
    IF n < 10 THEN <<Digits[n + 1]>>
    ELSE NumberText(n \div 10) \o <<Digits[(n % 10) + 1]>>

(***************************************************************************)
(* search-product-catalog: the handler                                     *)
(***************************************************************************)
\* { total: 0, products: [] }
EmptyStructured == [total |-> 0, products |-> <<>>]

\* the statements of the try block that can throw: name.toLowerCase() on a
\* name that is not a string
HandlerThrows(args) == args.name = Undefined

\* the catch block
ErrorResponse ==
    [structuredContent |-> EmptyStructured,
     text |-> <<"P", "r", "o", "d", "u", "c", "t", " ", "s", "e", "a", "r", "c", "h", " ", "f", "a", "i", "l", "e", "d", ":", " ">>
              \o <<"C", "a", "n", "n", "o", "t", " ", "r", "e", "a", "d", " ", "p", "r", "o", "p", "e", "r", "t", "i", "e", "s", " ", "o", "f", " ", "u", "n", "d", "e", "f", "i", "n", "e", "d", " ", "(", "r", "e", "a", "d", "i", "n", "g", " ", "'", "t", "o", "L", "o", "w", "e", "r", "C", "a", "s", "e", "'", ")">>]

\* the catch block after allProductsCSV.filter on a server without the
\* products decoration
MissingCatalogResponse ==
    [structuredContent |-> EmptyStructured,
     text |-> <<"P", "r", "o", "d", "u", "c", "t", " ", "s", "e", "a", "r", "c", "h", " ", "f", "a", "i", "l", "e", "d", ":", " ">>
              \o <<"C", "a", "n", "n", "o", "t", " ", "r", "e", "a", "d", " ", "p", "r", "o", "p", "e", "r", "t", "i", "e", "s", " ", "o", "f", " ", "u", "n", "d", "e", "f", "i", "n", "e", "d", " ", "(", "r", "e", "a", "d", "i", "n", "g", " ", "'", "f", "i", "l", "t", "e", "r", "'", ")">>]

\* the value the handler returns for the arguments args over the catalog
SearchProductCatalog(products, args) ==
    LET allProducts == allProductsOf(products, args)
        total == Len(allProducts)
        productsForResponse == Slice(allProducts, safeLimit(args.limit))
        structured == [total |-> total, products |-> productsForResponse]
        outcome == Outcome(products, args)
    IN  IF HandlerThrows(args) THEN ErrorResponse
        ELSE IF outcome = "models"
        THEN [structuredContent |-> EmptyStructured,
              text |-> <<"I", " ", "f", "o", "u", "n", "d", " ">> \o args.name \o <<" ", "f", "o", "r", " ", "t", "h", "e", "s", "e", " ">>
                       \o parsedBrand(args) \o <<" ", "m", "o", "d", "e", "l", "s", ":", "\n">>
                       \o modelList(allProducts)
                       \o <<"\n", "\n", "W", "h", "i", "c", "h", " ", "m", "o", "d", "e", "l", " ", "a", "n", "d", " ", "v", "a", "r", "i", "a", "n", "t", " ", "i", "s", " ", "y", "o", "u", "r", " ", "v", "e", "h", "i", "c", "l", "e", "?">>]
        ELSE IF outcome = "variants"
        THEN [structuredContent |-> EmptyStructured,
              text |-> <<"I", " ", "f", "o", "u", "n", "d", " ">> \o args.name \o <<" ", "f", "o", "r", " ", "t", "h", "e", "s", "e", " ">>
                       \o parsedBrand(args) \o <<" ">> \o parsedModel(args)
                       \o <<" ", "v", "a", "r", "i", "a", "n", "t", "s", ":", "\n">>
                       \o variantDisplay(singleModelVariantList(allProducts))
                       \o <<"\n", "\n", "C", "a", "n", " ", "y", "o", "u", " ", "s", "p", "e", "c", "i", "f", "y", " ", "w", "h", "i", "c", "h", " ", "v", "a", "r", "i", "a", "n", "t", " ", "y", "o", "u", "r", " ", "v", "e", "h", "i", "c", "l", "e", " ", "i", "s", "?">>]
        ELSE IF outcome = "many"
        THEN [structuredContent |-> structured,
              text |-> <<"F", "o", "u", "n", "d", " ">> \o NumberText(total) \o <<" ", "i", "t", "e", "m", "s", " ", "f", "o", "r", " ", "'">>
                       \o args.name \o <<"'", ":", "\n">>
                       \o variantLines(productsForResponse)]
        ELSE IF outcome = "one"
        THEN [structuredContent |-> structured,
              text |-> <<"F", "o", "u", "n", "d", " ", "o", "n", "e", " ", "p", "r", "o", "d", "u", "c", "t", ":", " ">> \o cleanName(allProducts[1].name)
                       \o <<" ", "f", "o", "r", " ">> \o vehicleInfo(allProducts[1])
                       \o <<" ", "(">> \o allProducts[1].productNumber \o <<")">>]
        ELSE [structuredContent |-> structured,
              text |-> <<"N", "o", " ", "p", "r", "o", "d", "u", "c", "t", "s", " ", "f", "o", "u", "n", "d", " ", "f", "o", "r", " ", "\"">> \o args.name \o <<"\"", ".">>]

(***************************************************************************)
(* The catalog CSV                                                         *)
(***************************************************************************)
\* the data rows a catalog file is made of, as Papa.parse returns them
\* (values not yet trimmed)
CsvRows ==
  { [productNumber |-> <<"A", "1">>, productName |-> <<"B", "r", "a", "k", "e", " ", "P", "a", "d">>,
     vehicleBrand |-> <<"V", "W">>, vehicleModel |-> <<"G", "o", "l", "f">>,
     vehicleVariant |-> <<>>],
    [productNumber |-> <<"A", "2">>, productName |-> <<"B", "r", "a", "k", "e", " ", "P", "a", "d">>,
     vehicleBrand |-> <<"V", "W">>, vehicleModel |-> <<"G", "o", "l", "f">>,
     vehicleVariant |-> <<" ", "G", "T", "I">>],
    [productNumber |-> <<"A", "3">>, productName |-> <<"B", "r", "a", "k", "e", " ", "P", "a", "d">>,
     vehicleBrand |-> <<"V", "W">>, vehicleModel |-> <<"G", "o", "l", "f", " ", "P", "l", "u", "s">>,
     vehicleVariant |-> <<"B", "a", "s", "e", "l", "i", "n", "e">>],
    [productNumber |-> <<"A", "4">>, productName |-> <<"B", "r", "a", "k", "e", " ", EAcuteUpper, "t", "r", "i", "e", "r", " ">>,
     vehicleBrand |-> <<"A", "u", "d", "i">>, vehicleModel |-> <<"A", "4">>,
     vehicleVariant |-> <<"A", "v", "a", "n", "t">>],
    [productNumber |-> <<"A", "5">>, productName |-> <<"J", "A", "E", "G", "E", "R", " ", "a", "u", "t", "o", "m", "o", "t", "i", "v", "e", " ", "B", "r", "a", "k", "e", " ", "P", "a", "d">>,
     vehicleBrand |-> <<" ", "V", "W">>, vehicleModel |-> <<"G", "o", "l", "f">>,
     vehicleVariant |-> <<" ", " ">>] }

\* the files: missing, unparseable, or up to MaxCatalog distinct rows in any order
RECURSIVE RowSeqs(_)
RowSeqs(n) ==
    IF n = 0 THEN {<<>>}
    ELSE LET shorter == RowSeqs(n - 1)
         IN  shorter \cup {Append(rows, r) : rows \in {x \in shorter : Len(x) = n - 1},
                                              r \in CsvRows}

CsvFiles ==
    {[exists |-> FALSE, errors |-> 0, data |-> <<>>],
     [exists |-> TRUE, errors |-> 1, data |-> <<>>]}
    \cup {[exists |-> TRUE, errors |-> 0, data |-> rows] :
             rows \in {x \in RowSeqs(MaxCatalog) : Cardinality(Range(x)) = Len(x)}}

\* p.field?.trim() || ''
CleanField(value) == OrElse(OptionalTrim(value), <<>>)

\* parsed.data.map(...)
CleanRows(data) ==
    [i \in 1..Len(data) |->
        [productNumber  |-> CleanField(data[i].productNumber),
         productName    |-> CleanField(data[i].productName),
         vehicleBrand   |-> CleanField(data[i].vehicleBrand),
         vehicleModel   |-> CleanField(data[i].vehicleModel),
         vehicleVariant |-> CleanField(data[i].vehicleVariant)]]

(***************************************************************************)
(* The tool calls                                                          *)
(***************************************************************************)
\* the request and reply pairs that can be under way at one time: every
\* POST /mcp has its own reply.raw, and a pair is free for the next request
\* once its reply has closed
Connections == {"c1", "c2"}

\* the pair whose call the properties of the handler's result read
Observed == "c1"

Args(name, limit, brand, model, variant, text) ==
    [name |-> name, limit |-> limit, vehicleBrand |-> brand, vehicleModel |-> model,
     vehicleVariant |-> variant, vehicleText |-> text]

Brake == <<"b", "r", "a", "k", "e">>
BrakePad == <<"b", "r", "a", "k", "e", " ", "p", "a", "d">>

NameArgs ==
    {<<"b", "r", "a", "k", "e", " ", "p", "a", "d">>,
     <<"p", "a", "d", " ", "b", "r", "a", "k", "e">>,
     <<"d", "i", "s", "c", " ", "p", "a", "d">>,
     <<"B", "r", "a", "k", "e">>,
     <<"e", "t", "r", "i", "e", "r">>,
     <<EAcuteUpper, "T", "R", "I", "E", "R">>,
     <<"b", "r", "a", "k", EAcuteLower>>,
     <<>>,
     <<"a", " ", "b">>,
     <<" ", " ">>,
     <<"x">>,
     <<" ", "p", "a", "d">>}

BrandArgs ==
    {Undefined,
     <<>>,
     <<" ", "v", "w", " ">>,
     <<"A", "u", "d", "i">>}

ModelArgs ==
    {Undefined,
     <<" ">>,
     <<"G", "o", "l", "f">>,
     <<"g", "o", "l", "f", " ", "p", "l", "u", "s">>}

VariantArgs ==
    {Undefined,
     <<>>,
     <<"G", "T", "I">>,
     <<"g", "t">>,
     <<"b", "a", "s", "e">>,
     <<"B", "a", "s", "e", " ", "V", "a", "r", "i", "a", "n", "t">>,
     <<"s", "t", "a", "n", "d", "a", "r", "d">>,
     <<"b", "a", "s", "i", "c">>,
     <<"b", "a", "s", "e", "l", "i", "n", "e">>,
     <<" ">>}

TextArgs ==
    {<<>>,
     <<"V", "W">>,
     <<" ", "V", "W", " ", " ", "G", "o", "l", "f", " ">>,
     <<"V", "W", " ", "G", "o", "l", "f", " ", "G", "T", "I">>,
     <<"V", "W", " ", "G", "o", "l", "f", " ", " ", "b", "a", "s", "e", " ", "v", "a", "r", "i", "a", "n", "t">>}

\* the limits the input schema admits: none, or a number from 1 to 100
LimitArgs == {NoLimit, 1, 2, 3, 100}

VW == <<"V", "W">>
Golf == <<"G", "o", "l", "f">>

\* the calls of the model: every name with and without a brand; every brand
\* with every model; every variant without and with brand and model;
\* vehicleText alone and beside structured fields; every limit
ToolCalls ==
    {Args(n, NoLimit, b, Undefined, Undefined, Undefined) :
        n \in NameArgs, b \in {Undefined, VW}}
    \cup {Args(Brake, NoLimit, b, m, v, Undefined) :
        b \in BrandArgs, m \in ModelArgs, v \in {Undefined, <<"g", "t">>}}
    \cup {Args(BrakePad, NoLimit, bm[1], bm[2], v, Undefined) :
        bm \in {<<Undefined, Undefined>>, <<VW, Golf>>}, v \in VariantArgs}
    \cup {Args(BrakePad, NoLimit, f[1], f[2], f[3], t) :
        f \in {<<Undefined, Undefined, Undefined>>,
               <<<<"B", "M", "W">>, Undefined, Undefined>>,
               <<Undefined, <<"G", "o", "l", "f", " ", "P", "l", "u", "s">>, Undefined>>,
               <<Undefined, Undefined, <<"G", "T", "I">>>>,
               <<<<"B", "M", "W">>, <<"G", "o", "l", "f", " ", "P", "l", "u", "s">>, <<"G", "T", "I">>>>},
        t \in TextArgs}
    \cup {Args(Brake, l, bm[1], bm[2], Undefined, Undefined) :
        l \in LimitArgs, bm \in {<<Undefined, Undefined>>, <<VW, Golf>>}}

(***************************************************************************)
(* Catalogs and calls for the texts of the responses                       *)
(***************************************************************************)
\* data rows of one product for Golf and Golf Plus fitments: two rows that
\* differ in the manufacturer prefix of the name only, named variants that
\* sort before and after 'base variant', a model 'Golf Plus' beside a
\* variant 'Plus' of the model 'Golf', a variant 'Baseline', whose name
\* contains a base-variant term, and a variant 'eHybrid', whose name begins
\* with a small letter
DisplayRows ==
  { [productNumber |-> <<"A", "1">>, productName |-> <<"B", "r", "a", "k", "e", " ", "P", "a", "d", " ", "F", "r", "o", "n", "t">>,
     vehicleBrand |-> <<"V", "W">>, vehicleModel |-> <<"G", "o", "l", "f">>,
     vehicleVariant |-> <<>>],
    [productNumber |-> <<"A", "2">>, productName |-> <<"J", "A", "E", "G", "E", "R", " ", "a", "u", "t", "o", "m", "o", "t", "i", "v", "e", " ", "B", "r", "a", "k", "e", " ", "P", "a", "d", " ", "F", "r", "o", "n", "t">>,
     vehicleBrand |-> <<"V", "W">>, vehicleModel |-> <<"G", "o", "l", "f">>,
     vehicleVariant |-> <<>>],
    [productNumber |-> <<"A", "3">>, productName |-> <<"B", "r", "a", "k", "e", " ", "P", "a", "d", " ", "F", "r", "o", "n", "t">>,
     vehicleBrand |-> <<"V", "W">>, vehicleModel |-> <<"G", "o", "l", "f">>,
     vehicleVariant |-> <<"G", "T", "I">>],
    [productNumber |-> <<"A", "4">>, productName |-> <<"B", "r", "a", "k", "e", " ", "P", "a", "d", " ", "F", "r", "o", "n", "t">>,
     vehicleBrand |-> <<"V", "W">>, vehicleModel |-> <<"G", "o", "l", "f">>,
     vehicleVariant |-> <<"A", "l", "l", "t", "r", "a", "c", "k">>],
    [productNumber |-> <<"A", "5">>, productName |-> <<"B", "r", "a", "k", "e", " ", "P", "a", "d", " ", "F", "r", "o", "n", "t">>,
     vehicleBrand |-> <<"V", "W">>, vehicleModel |-> <<"G", "o", "l", "f", " ", "P", "l", "u", "s">>,
     vehicleVariant |-> <<>>],
    [productNumber |-> <<"A", "6">>, productName |-> <<"B", "r", "a", "k", "e", " ", "P", "a", "d", " ", "F", "r", "o", "n", "t">>,
     vehicleBrand |-> <<"V", "W">>, vehicleModel |-> <<"G", "o", "l", "f">>,
     vehicleVariant |-> <<"P", "l", "u", "s">>],
    [productNumber |-> <<"A", "7">>, productName |-> <<"B", "r", "a", "k", "e", " ", "P", "a", "d", " ", "F", "r", "o", "n", "t">>,
     vehicleBrand |-> <<"V", "W">>, vehicleModel |-> <<"G", "o", "l", "f">>,
     vehicleVariant |-> <<"B", "a", "s", "e", "l", "i", "n", "e">>],
    [productNumber |-> <<"A", "8">>, productName |-> <<"B", "r", "a", "k", "e", " ", "P", "a", "d", " ", "F", "r", "o", "n", "t">>,
     vehicleBrand |-> <<"V", "W">>, vehicleModel |-> <<"G", "o", "l", "f">>,
     vehicleVariant |-> <<"e", "H", "y", "b", "r", "i", "d">>] }

\* the files: missing, unparseable, or up to MaxCatalog distinct rows in any order
DisplayFiles ==
    {[exists |-> FALSE, errors |-> 0, data |-> <<>>],
     [exists |-> TRUE, errors |-> 1, data |-> <<>>]}
    \cup {[exists |-> TRUE, errors |-> 0, data |-> rows] :
             rows \in {x \in UNION {[1..n -> DisplayRows] : n \in 0..MaxCatalog} :
                          Cardinality(Range(x)) = Len(x)}}

\* the calls for the product: no fitment, the brand alone, brand and model,
\* and a request for the base variant; without a limit and with a limit of 2
DisplayCalls ==
    {Args(BrakePad, l, f[1], f[2], f[3], Undefined) :
        l \in {NoLimit, 2},
        f \in {<<Undefined, Undefined, Undefined>>,
               <<VW, Undefined, Undefined>>,
               <<VW, Golf, Undefined>>,
               <<VW, <<"G", "o", "l", "f", " ", "P", "l", "u", "s">>, Undefined>>,
               <<VW, Golf, <<"b", "a", "s", "e">>>>}}

(***************************************************************************)
(* search-product-vector                                                   *)
(***************************************************************************)
\* the bound of the hits one index query returns
MaxHits == 2

\* the bullet and the dash of the result lines
Bullet == "U+2022"
EnDash == "U+2013"

\* the filter on vehicleBrand alone
VectorBrandModelFilter_BrandOnly(hits, args) ==
    LET brand == ToLowerCase(args.vehicleBrand)
    IN  SelectSeq(hits, LAMBDA r : Includes(ToLowerCase(r.vehicleBrand), brand))

\* hits.filter on vehicleBrand and vehicleModel
VectorBrandModelFilter(hits, args) ==
    LET brand == ToLowerCase(args.vehicleBrand)
        model == ToLowerCase(args.vehicleModel)
    IN  SelectSeq(hits, LAMBDA r :
            /\ Includes(ToLowerCase(r.vehicleBrand), brand)
            /\ Includes(ToLowerCase(r.vehicleModel), model))

\* if (vehicleVariant) hits.filter on vehicleVariant
VectorVariantFilter(hits, args) ==
    IF Truthy(args.vehicleVariant)
    THEN LET variant == ToLowerCase(args.vehicleVariant)
         IN  SelectSeq(hits, LAMBDA r : Includes(ToLowerCase(r.vehicleVariant), variant))
    ELSE hits

\* hits.map(r => ({ ... })) after the two filters
VectorProducts(hits, args) ==
    LET kept == VectorVariantFilter(VectorBrandModelFilter(hits, args), args)
    IN  [i \in 1..Len(kept) |->
            [productNumber  |-> kept[i].productNumber,
             productName    |-> kept[i].productName,
             vehicleBrand   |-> kept[i].vehicleBrand,
             vehicleModel   |-> kept[i].vehicleModel,
             vehicleVariant |-> kept[i].vehicleVariant]]

\* `[${p.productNumber}] ${cleanName} - ${p.vehicleBrand} ${p.vehicleModel} ${p.vehicleVariant}`
VectorProductText(p) ==
    <<"[">> \o p.productNumber \o <<"]", " ">> \o cleanName(p.productName)
    \o <<" ", EnDash, " ">>
    \o p.vehicleBrand \o <<" ">> \o p.vehicleModel \o <<" ">> \o p.vehicleVariant

\* the value the try block returns for the hits of the index
VectorResponse(hits, args) ==
    LET vproducts == VectorProducts(hits, args)
        total == Len(vproducts)
        structured == [total |-> total, products |-> vproducts]
    IN  IF total > 1
        THEN [structuredContent |-> structured,
              text |-> <<"F", "o", "u", "n", "d", " ">> \o NumberText(total) \o <<" ", "i", "t", "e", "m", "s", " ", "f", "o", "r", " ", "'">>
                       \o args.name \o <<"'", ":", "\n">>
                       \o Join([k \in 1..total |-> <<Bullet, " ">> \o VectorProductText(vproducts[k])],
                               <<"\n">>)]
        ELSE IF total = 1
        THEN [structuredContent |-> structured,
              text |-> <<"F", "o", "u", "n", "d", " ", "o", "n", "e", " ", "p", "r", "o", "d", "u", "c", "t", ":", " ">> \o VectorProductText(vproducts[1])]
        ELSE [structuredContent |-> structured,
              text |-> <<"N", "o", " ", "p", "r", "o", "d", "u", "c", "t", "s", " ", "f", "o", "u", "n", "d", " ", "f", "o", "r", " ", "\"">> \o args.name \o <<"\"", ".">>]

\* the handler left by a return
Returned(response) == [kind |-> "return", value |-> response]

\* the handler not yet left
NoOutcome == [kind |-> "none", value |-> <<>>]

\* a catch block that throws the error on
CatchBlock_Rethrow(err) == [kind |-> "throw", value |-> err]

\* the catch block: log, then return the empty result with the message
CatchBlock(err) ==
    Returned([structuredContent |-> EmptyStructured,
              text |-> <<"V", "e", "c", "t", "o", "r", " ", "s", "e", "a", "r", "c", "h", " ", "f", "a", "i", "l", "e", "d", ":", " ">> \o err.message])

\* what the embedding service answers: a vector, or an error
Embeddings == {<<0, 1>>, <<1, 0>>}
EmbedErrors ==
    {[message |-> <<"C", "o", "n", "n", "e", "c", "t", "i", "o", "n", " ", "e", "r", "r", "o", "r", ".">>],
     [message |-> <<"R", "e", "q", "u", "e", "s", "t", " ", "t", "i", "m", "e", "d", " ", "o", "u", "t", ".">>]}

\* what the index answers: up to MaxHits of its rows, nearest first, or an error
IndexRows == {CleanRows(<<r>>)[1] : r \in CsvRows}
IndexHits ==
    {x \in UNION {[1..n -> IndexRows] : n \in 0..MaxHits} : Cardinality(Range(x)) = Len(x)}
IndexErrors ==
    {[message |-> <<"T", "a", "b", "l", "e", " ", "n", "o", "t", " ", "f", "o", "u", "n", "d">>],
     [message |-> <<>>]}

\* the calls: name, brand and model are required strings, the variant is optional
VectorArgs(name, brand, model, variant) ==
    [name |-> name, vehicleBrand |-> brand, vehicleModel |-> model, vehicleVariant |-> variant]

VectorCalls ==
    {VectorArgs(BrakePad, b, m, v) :
        b \in {VW, <<"a", "u", "d", "i">>},
        m \in {Golf, <<>>},
        v \in {Undefined, <<>>, <<"g", "t">>}}

(***************************************************************************)
(* ShopwareAdminClient: the token cache                                    *)
(***************************************************************************)
\* private token: string | null = null
Null == <<"<null>">>

\* the requests that can be under way at once, the token fetches of a run,
\* and the steps of the clock
MaxRequests == 2
MaxFetches == 3
MaxTicks == 3

\* 30_000: a token counts as expired 30 s before its expiry, and the clock
\* of the model advances in steps of this length
ExpiryMargin == 30000

\* the answers of POST /oauth/token: a token and its life time in
\* seconds, one that is stale on arrival and one that lasts
TokenResponses ==
    {[access_token |-> <<"t", "1">>, expires_in |-> 30],
     [access_token |-> <<"t", "2">>, expires_in |-> 90]}

\* this.token && now < this.tokenExpiresAt - 30_000
TokenIsFresh(token, tokenExpiresAt, now) ==
    /\ token # Null
    /\ Truthy(token)
    /\ now < tokenExpiresAt - ExpiryMargin

\* `Bearer ${token}`
Authorization(token) ==
    <<"B", "e", "a", "r", "e", "r", " ">>
    \o (IF token = Null THEN <<"n", "u", "l", "l">> ELSE token)

\* the callers of searchProducts that can have a call under way at one time
Searches == {"s1", "s2"}

\* a request that has not entered the interceptor
IdleRequest == [pc |-> "idle", now |-> 0, authorization |-> <<>>]

(***************************************************************************)
(* State                                                                   *)
(***************************************************************************)
VARIABLES
    phase,      \* "starting", then "serving" or, when a plugin threw, "failed"
    products,   \* fastify.products, the catalog
    call,       \* the POST /mcp exchange of each connection: <<>>, or
                \* <<[args, pc, result]>> with the result <<>> until the
                \* handler has returned
    vcall,      \* the open search-product-vector exchange: <<>> or <<[args,
                \* pc, queryEmbedding, hits, embedCalls, tableSearches, caught,
                \* outcome]>>; hits are the rows as the index returned them
    admin,      \* a ShopwareAdminClient: its fields token and tokenExpiresAt,
                \* the clock Date.now() reads, the requests under way, the
                \* number of token fetches started and the fetches answered
    ingest,     \* the ingestion script at one batch
    paging      \* the searchProducts call of each caller: <<>> or <<[limit,
                \* pc, page, now, all, total, requested, answers, result]>>

serverVars == <<phase, products, call, vcall>>

vars == <<phase, products, call, vcall, admin, ingest, paging>>

Init ==
    /\ phase = "starting"
    /\ products = <<>>
    /\ call = [c \in Connections |-> <<>>]
    /\ vcall = <<>>
    /\ admin = [token |-> Null, tokenExpiresAt |-> 0, clock |-> 0,
                fetches |-> 0, answered |-> {},
                requests |-> [r \in 1..MaxRequests |-> IdleRequest]]
    /\ ingest = <<>>
    /\ paging = [s \in Searches |-> <<>>]

\* the csv plugin: throw when the file is missing or the parse has errors,
\* else decorate the server with the cleaned rows
registerCSV(file) ==
    /\ phase = "starting"
    /\ IF ~file.exists \/ file.errors > 0
       THEN /\ phase' = "failed"
            /\ products' = products
       ELSE /\ phase' = "serving"
            /\ products' = CleanRows(file.data)
    /\ call' = call
    /\ vcall' = vcall
    /\ UNCHANGED <<admin, ingest, paging>>

\* the input schema of the tool: the name is a string, the limit is absent
\* or a number from 1 to 100, every vehicle field is absent or a string and
\* never null
SchemaAccepts(args) ==
    /\ args.name # Undefined
    /\ args.name # Null
    /\ \/ args.limit = NoLimit
       \/ args.limit \in 1..100
    /\ args.vehicleBrand # Null
    /\ args.vehicleModel # Null
    /\ args.vehicleVariant # Null
    /\ args.vehicleText # Null

\* POST /mcp on a connection that has no exchange under way: the reply is
\* hijacked, a server and a transport are made for this request and the
\* close listener is registered; the route suspends at the await of
\* mcpServer.connect
PostMcp(c, args) ==
    /\ phase = "serving"
    /\ call[c] = <<>>
    /\ call' = [call EXCEPT ![c] = <<[args |-> args, pc |-> "connect",
                                     result |-> <<>>]>>]
    /\ UNCHANGED <<phase, products, vcall>>
    /\ UNCHANGED <<admin, ingest, paging>>

\* mcpServer.connect resolves: the route goes on to the await of
\* transport.handleRequest
mcpServerConnect(c) ==
    /\ call[c] # <<>>
    /\ call[c][1].pc = "connect"
    /\ call' = [call EXCEPT ![c] = <<[call[c][1] EXCEPT !.pc = "handle"]>>]
    /\ UNCHANGED <<phase, products, vcall>>
    /\ UNCHANGED <<admin, ingest, paging>>

\* a handler that leaves the catalog in reverse order
handleRequest_ReversesCatalog(c) ==
    /\ call[c] # <<>>
    /\ call[c][1].pc = "handle"
    /\ SchemaAccepts(call[c][1].args)
    /\ call' = [call EXCEPT ![c] =
                   <<[call[c][1] EXCEPT
                        !.pc = "done",
                        !.result = <<SearchProductCatalog(products, call[c][1].args)>>]>>]
    /\ products' = [i \in 1..Len(products) |-> products[Len(products) + 1 - i]]
    /\ UNCHANGED <<phase, vcall>>
    /\ UNCHANGED <<admin, ingest, paging>>

\* transport.handleRequest with a search-product-catalog call: the arguments
\* the input schema accepts reach the handler, which runs to its return
\* without suspending on the catalog of this moment; the result is written
\* to the connection
handleRequest(c) ==
    /\ call[c] # <<>>
    /\ call[c][1].pc = "handle"
    /\ SchemaAccepts(call[c][1].args)
    /\ call' = [call EXCEPT ![c] =
                   <<[call[c][1] EXCEPT
                        !.pc = "done",
                        !.result = <<SearchProductCatalog(products, call[c][1].args)>>]>>]
    /\ UNCHANGED <<phase, products, vcall>>
    /\ UNCHANGED <<admin, ingest, paging>>

\* the connection closes, before the result or after it: the close listener
\* closes the transport and the server of the exchange
ConnectionClose(c) ==
    /\ call[c] # <<>>
    /\ call' = [call EXCEPT ![c] = <<>>]
    /\ UNCHANGED <<phase, products, vcall>>
    /\ UNCHANGED <<admin, ingest, paging>>

\* buildServer of index.ts: swagger, shopware, the routes, lancedb and mcp
\* are registered in this order and the csv plugin is not among them; the
\* catalog file is not read, and the server comes to listen when the
\* products table opens
buildServer(file, opens) ==
    /\ phase = "starting"
    /\ phase' = IF opens THEN "serving" ELSE "failed"
    /\ UNCHANGED <<products, call, vcall>>
    /\ UNCHANGED <<admin, ingest, paging>>

\* transport.handleRequest with a search-product-catalog call on the server
\* of buildServer: fastify.products is undefined, allProductsCSV.filter
\* throws and the catch block answers
handleRequestWithoutCatalog(c) ==
    /\ call[c] # <<>>
    /\ call[c][1].pc = "handle"
    /\ SchemaAccepts(call[c][1].args)
    /\ call' = [call EXCEPT ![c] =
                   <<[call[c][1] EXCEPT
                        !.pc = "done",
                        !.result = <<IF HandlerThrows(call[c][1].args)
                                     THEN ErrorResponse
                                     ELSE MissingCatalogResponse>>]>>]
    /\ UNCHANGED <<phase, products, vcall>>
    /\ UNCHANGED <<admin, ingest, paging>>

\* the lancedb plugin: connect and open the products table, throw when the
\* table cannot be opened
registerLanceDB(opens) ==
    /\ phase = "starting"
    /\ phase' = IF opens THEN "serving" ELSE "failed"
    /\ UNCHANGED <<products, call, vcall>>
    /\ UNCHANGED <<admin, ingest, paging>>

\* POST /mcp with a search-product-vector call: the handler enters its try
\* block, calls embed(name) and suspends at the await
PostVector(args) ==
    /\ phase = "serving"
    /\ vcall = <<>>
    /\ vcall' = <<[args |-> args, pc |-> "embed", queryEmbedding |-> Undefined,
                   hits |-> <<>>,
                   embedCalls |-> 1, tableSearches |-> 0, caught |-> <<>>,
                   outcome |-> NoOutcome]>>
    /\ UNCHANGED <<phase, products, call>>
    /\ UNCHANGED <<admin, ingest, paging>>

\* embed(name) resolves: the handler calls table.search(queryEmbedding)
\* ... .toArray() and suspends at the await
EmbedResolves(embedding) ==
    /\ vcall # <<>>
    /\ vcall[1].pc = "embed"
    /\ vcall' = <<[vcall[1] EXCEPT !.pc = "search",
                                   !.queryEmbedding = embedding,
                                   !.tableSearches = @ + 1]>>
    /\ UNCHANGED <<phase, products, call>>
    /\ UNCHANGED <<admin, ingest, paging>>

\* embed(name) called once more when it rejects, up to three calls
EmbedRejects_Retry(err) ==
    /\ vcall # <<>>
    /\ vcall[1].pc = "embed"
    /\ vcall' = IF vcall[1].embedCalls < 3
                THEN <<[vcall[1] EXCEPT !.embedCalls = @ + 1]>>
                ELSE <<[vcall[1] EXCEPT !.pc = "done", !.caught = <<err>>,
                                        !.outcome = CatchBlock(err)]>>
    /\ UNCHANGED <<phase, products, call>>
    /\ UNCHANGED <<admin, ingest, paging>>

\* embed(name) rejects: control passes to the catch block
EmbedRejects(err) ==
    /\ vcall # <<>>
    /\ vcall[1].pc = "embed"
    /\ vcall' = <<[vcall[1] EXCEPT !.pc = "done", !.caught = <<err>>,
                                   !.outcome = CatchBlock(err)]>>
    /\ UNCHANGED <<phase, products, call>>
    /\ UNCHANGED <<admin, ingest, paging>>

\* the index query resolves: filter, map and format the hits, return
SearchResolves(hits) ==
    /\ vcall # <<>>
    /\ vcall[1].pc = "search"
    /\ vcall' = <<[vcall[1] EXCEPT !.pc = "done",
                                   !.hits = hits,
                                   !.outcome = Returned(VectorResponse(hits, vcall[1].args))]>>
    /\ UNCHANGED <<phase, products, call>>
    /\ UNCHANGED <<admin, ingest, paging>>

\* the index query rejects: control passes to the catch block
SearchRejects(err) ==
    /\ vcall # <<>>
    /\ vcall[1].pc = "search"
    /\ vcall' = <<[vcall[1] EXCEPT !.pc = "done", !.caught = <<err>>,
                                   !.outcome = CatchBlock(err)]>>
    /\ UNCHANGED <<phase, products, call>>
    /\ UNCHANGED <<admin, ingest, paging>>

\* the handler is left and the connection closes
VectorClose ==
    /\ vcall # <<>>
    /\ vcall[1].pc = "done"
    /\ vcall' = <<>>
    /\ UNCHANGED <<phase, products, call>>
    /\ UNCHANGED <<admin, ingest, paging>>

\* time passes
ClockAdvances ==
    /\ admin.clock < MaxTicks * ExpiryMargin
    /\ admin' = [admin EXCEPT !.clock = @ + ExpiryMargin]
    /\ UNCHANGED <<serverVars, ingest, paging>>

\* a request enters the interceptor, which calls getValidToken: the clock is
\* read; a fresh token is returned at once and the request leaves with it,
\* otherwise fetchToken is called and the request suspends at the await
getValidToken(r) ==
    /\ admin.requests[r].pc = "idle"
    /\ LET now == admin.clock
       IN  IF TokenIsFresh(admin.token, admin.tokenExpiresAt, now)
           THEN admin' = [admin EXCEPT
                    !.requests[r] = [pc |-> "sent", now |-> now,
                                     authorization |-> Authorization(admin.token)]]
           ELSE /\ admin.fetches < MaxFetches
                /\ admin' = [admin EXCEPT
                       !.fetches = @ + 1,
                       !.requests[r] = [pc |-> "fetch", now |-> now,
                                        authorization |-> <<>>]]
    /\ UNCHANGED <<serverVars, ingest, paging>>

\* the expiry counted from the moment the answer arrives
fetchTokenResolves_ExpiryFromArrival(r, tokenResp) ==
    /\ admin.requests[r].pc = "fetch"
    /\ admin' = [admin EXCEPT
           !.token = tokenResp.access_token,
           !.tokenExpiresAt = admin.clock + tokenResp.expires_in * 1000,
           !.answered = @ \cup {[tokenResp |-> tokenResp, now |-> admin.requests[r].now]},
           !.requests[r] = [pc |-> "sent", now |-> admin.requests[r].now,
                            authorization |-> Authorization(tokenResp.access_token)]]
    /\ UNCHANGED <<serverVars, ingest, paging>>

\* POST /oauth/token answers: token and tokenExpiresAt are assigned, the
\* token is returned and the request leaves with it
fetchTokenResolves(r, tokenResp) ==
    /\ admin.requests[r].pc = "fetch"
    /\ admin' = [admin EXCEPT
           !.token = tokenResp.access_token,
           !.tokenExpiresAt = admin.requests[r].now + tokenResp.expires_in * 1000,
           !.answered = @ \cup {[tokenResp |-> tokenResp, now |-> admin.requests[r].now]},
           !.requests[r] = [pc |-> "sent", now |-> admin.requests[r].now,
                            authorization |-> Authorization(tokenResp.access_token)]]
    /\ UNCHANGED <<serverVars, ingest, paging>>

\* POST /oauth/token fails: getValidToken and the interceptor reject, the
\* request is not sent
fetchTokenRejects(r) ==
    /\ admin.requests[r].pc = "fetch"
    /\ admin' = [admin EXCEPT !.requests[r].pc = "failed"]
    /\ UNCHANGED <<serverVars, ingest, paging>>

\* the request is answered, or its failure has reached the caller
RequestSettles(r) ==
    /\ admin.requests[r].pc \in {"sent", "failed"}
    /\ admin' = [admin EXCEPT !.requests[r] = IdleRequest]
    /\ UNCHANGED <<serverVars, ingest, paging>>

\* the server with the catalog and one exchange at a time; exchanges that
\* interleave are the subject of SpecLimits
Next ==
    \/ \E file \in CsvFiles : registerCSV(file)
    \/ \E args \in ToolCalls : PostMcp(Observed, args)
    \/ mcpServerConnect(Observed)
    \/ handleRequest(Observed)
    \/ ConnectionClose(Observed)

Spec == Init /\ [][Next]_vars

\* the same server over the catalogs and calls for the texts
NextDisplay ==
    \/ \E file \in DisplayFiles : registerCSV(file)
    \/ \E args \in DisplayCalls : PostMcp(Observed, args)
    \/ mcpServerConnect(Observed)
    \/ handleRequest(Observed)
    \/ ConnectionClose(Observed)

SpecDisplay == Init /\ [][NextDisplay]_vars

\* the calls for one name without a limit, with the least and with the
\* greatest limit, without fitment and with a brand and a model
LimitCalls ==
    {Args(Brake, l, bm[1], bm[2], Undefined, Undefined) :
        l \in {NoLimit, 1, 100}, bm \in {<<Undefined, Undefined>>, <<VW, Golf>>}}

\* the same server under these calls alone, on every connection
NextLimits ==
    \/ \E file \in CsvFiles : registerCSV(file)
    \/ \E c \in Connections, args \in LimitCalls : PostMcp(c, args)
    \/ \E c \in Connections : mcpServerConnect(c)
    \/ \E c \in Connections : handleRequest(c)
    \/ \E c \in Connections : ConnectionClose(c)

SpecLimits == Init /\ [][NextLimits]_vars

\* the server of the vector search
NextVector ==
    \/ \E opens \in BOOLEAN : registerLanceDB(opens)
    \/ \E args \in VectorCalls : PostVector(args)
    \/ \E embedding \in Embeddings : EmbedResolves(embedding)
    \/ \E err \in EmbedErrors : EmbedRejects(err)
    \/ \E hits \in IndexHits : SearchResolves(hits)
    \/ \E err \in IndexErrors : SearchRejects(err)
    \/ VectorClose

SpecVector == Init /\ [][NextVector]_vars

\* the server as index.ts builds it, with the catalog tool registered
NextServer ==
    \/ \E file \in CsvFiles, opens \in BOOLEAN : buildServer(file, opens)
    \/ \E args \in ToolCalls : PostMcp(Observed, args)
    \/ mcpServerConnect(Observed)
    \/ handleRequestWithoutCatalog(Observed)
    \/ ConnectionClose(Observed)

SpecServer == Init /\ [][NextServer]_vars

\* requests of one admin client, in any interleaving
NextAdmin ==
    \/ ClockAdvances
    \/ \E r \in 1..MaxRequests : getValidToken(r)
    \/ \E r \in 1..MaxRequests, tokenResp \in TokenResponses : fetchTokenResolves(r, tokenResp)
    \/ \E r \in 1..MaxRequests : fetchTokenRejects(r)
    \/ \E r \in 1..MaxRequests : RequestSettles(r)

SpecAdmin == Init /\ [][NextAdmin]_vars

(***************************************************************************)
(* The ingestion script: processBatch                                      *)
(***************************************************************************)
\* the rows of one batch
MaxBatch == 2

\* let retries = 3
InitialRetries == 3

\* the batches main hands to processBatch: rows as csv-parse returns them
\* with trim: true
Batches ==
    {x \in UNION {[1..n -> IndexRows] : n \in 1..MaxBatch} : Cardinality(Range(x)) = Len(x)}

\* response.data.map((item, idx) => ({ ...batch[idx], vector: item.embedding }))
RecordsOf(batch, data) ==
    [idx \in 1..Len(data) |->
        [productNumber  |-> batch[idx].productNumber,
         productName    |-> batch[idx].productName,
         vehicleBrand   |-> batch[idx].vehicleBrand,
         vehicleModel   |-> batch[idx].vehicleModel,
         vehicleVariant |-> batch[idx].vehicleVariant,
         vector         |-> data[idx]]]

\* the table before a batch: empty, or the record of an earlier batch or run
EarlierTables ==
    {<<>>,
     RecordsOf(<<[productNumber |-> <<"A", "0">>, productName |-> <<"B", "r", "a", "k", "e", " ", "D", "i", "s", "c">>,
                  vehicleBrand |-> <<"V", "W">>, vehicleModel |-> <<"P", "o", "l", "o">>,
                  vehicleVariant |-> <<>>]>>,
               <<<<0, 1>>>>)}

\* main calls processBatch: the inputs are built and the first
\* openai.embeddings.create is under way
processBatch(batch, isFirstBatch, table) ==
    /\ ingest = <<>>
    /\ ingest' = <<[batch |-> batch, isFirstBatch |-> isFirstBatch, table |-> table,
                    pc |-> "embed", retries |-> InitialRetries, calls |-> 1,
                    caught |-> <<>>, delays |-> <<>>, records |-> <<>>, thrown |-> <<>>]>>
    /\ UNCHANGED <<serverVars, admin, paging>>

\* openai.embeddings.create answers with one embedding per input: break,
\* map the records and call db.createTable or table.add
EmbeddingsCreateResolves(embedding) ==
    /\ ingest # <<>>
    /\ ingest[1].pc = "embed"
    /\ ingest' = <<[ingest[1] EXCEPT
                       !.pc = "write",
                       !.records = RecordsOf(ingest[1].batch,
                                             [i \in 1..Len(ingest[1].batch) |-> embedding])]>>
    /\ UNCHANGED <<serverVars, admin, paging>>

\* the catch block with the test for the last retry after the next call
EmbeddingsCreateRejects_OneMore(error) ==
    /\ ingest # <<>>
    /\ ingest[1].pc = "embed"
    /\ LET retries == ingest[1].retries - 1
       IN  ingest' = IF retries < 0
                     THEN <<[ingest[1] EXCEPT !.pc = "thrown", !.retries = retries,
                                              !.caught = Append(@, error),
                                              !.thrown = <<error>>]>>
                     ELSE <<[ingest[1] EXCEPT !.pc = "backoff", !.retries = retries,
                                              !.caught = Append(@, error),
                                              !.delays = Append(@, 1000 * (4 - retries))]>>
    /\ UNCHANGED <<serverVars, admin, paging>>

\* openai.embeddings.create rejects: the catch block counts the retry down,
\* rethrows when none is left, and otherwise waits 1000 * (4 - retries) ms
EmbeddingsCreateRejects(error) ==
    /\ ingest # <<>>
    /\ ingest[1].pc = "embed"
    /\ LET retries == ingest[1].retries - 1
       IN  ingest' = IF retries = 0
                     THEN <<[ingest[1] EXCEPT !.pc = "thrown", !.retries = retries,
                                              !.caught = Append(@, error),
                                              !.thrown = <<error>>]>>
                     ELSE <<[ingest[1] EXCEPT !.pc = "backoff", !.retries = retries,
                                              !.caught = Append(@, error),
                                              !.delays = Append(@, 1000 * (4 - retries))]>>
    /\ UNCHANGED <<serverVars, admin, paging>>

\* the timer of the backoff fires: the loop tests retries > 0 and calls
\* openai.embeddings.create again
BackoffElapses ==
    /\ ingest # <<>>
    /\ ingest[1].pc = "backoff"
    /\ ingest' = <<[ingest[1] EXCEPT !.pc = "embed", !.calls = @ + 1]>>
    /\ UNCHANGED <<serverVars, admin, paging>>

\* db.createTable (mode 'overwrite') or table.add answers: processBatch returns
TableWriteResolves ==
    /\ ingest # <<>>
    /\ ingest[1].pc = "write"
    /\ ingest' = <<[ingest[1] EXCEPT
                       !.pc = "returned",
                       !.table = IF ingest[1].isFirstBatch THEN ingest[1].records
                                 ELSE @ \o ingest[1].records]>>
    /\ UNCHANGED <<serverVars, admin, paging>>

\* db.createTable or table.add rejects: processBatch rejects
TableWriteRejects(error) ==
    /\ ingest # <<>>
    /\ ingest[1].pc = "write"
    /\ ingest' = <<[ingest[1] EXCEPT !.pc = "thrown", !.thrown = <<error>>]>>
    /\ UNCHANGED <<serverVars, admin, paging>>

\* main goes on to the next batch, or main().catch ends the process
BatchLeaves ==
    /\ ingest # <<>>
    /\ ingest[1].pc \in {"returned", "thrown"}
    /\ ingest' = <<>>
    /\ UNCHANGED <<serverVars, admin, paging>>

\* the embedding service answers or fails
EmbeddingsCreateSettles ==
    \/ \E embedding \in Embeddings : EmbeddingsCreateResolves(embedding)
    \/ \E error \in EmbedErrors : EmbeddingsCreateRejects(error)

NextIngest ==
    \/ \E batch \in Batches, isFirstBatch \in BOOLEAN, table \in EarlierTables :
           processBatch(batch, isFirstBatch, table)
    \/ \E embedding \in Embeddings : EmbeddingsCreateResolves(embedding)
    \/ \E error \in EmbedErrors : EmbeddingsCreateRejects(error)
    \/ BackoffElapses
    \/ TableWriteResolves
    \/ \E error \in IndexErrors : TableWriteRejects(error)
    \/ BatchLeaves

SpecIngest == Init /\ [][NextIngest]_vars

\* every call of the embedding service settles and every timer fires
SpecIngestFair ==
    /\ SpecIngest
    /\ WF_vars(EmbeddingsCreateSettles)
    /\ WF_vars(BackoffElapses)
    /\ WF_vars(TableWriteResolves \/ \E error \in IndexErrors : TableWriteRejects(error))

(***************************************************************************)
(* ShopwareAdminClient: searchProducts                                     *)
(***************************************************************************)
\* the pages of one call, the items of one answer, and the totals an
\* answer reports
MaxPages == 3
MaxItems == 2
MaxTotal == 3

\* const pageSize = 250
pageSize == 250

\* the limits of the calls: none, or a number
SearchLimits == {NoLimit, 5}

\* what POST /search/product answers for a page: up to MaxItems items of
\* that page, or no data field, and a total, or none
PageAnswers(page) ==
    {[hasData |-> d[1], data |-> [k \in 1..d[2] |-> <<page, k>>],
      hasTotal |-> t[1], total |-> t[2]] :
        d \in {<<FALSE, 0>>} \cup {<<TRUE, n>> : n \in 0..MaxItems},
        t \in {<<FALSE, 0>>} \cup {<<TRUE, m>> : m \in 0..MaxTotal}}

\* the answers of all pages; an answer step takes one of the page its call
\* has requested
AllPageAnswers == UNION {PageAnswers(page) : page \in 0..MaxPages}

\* this.post('/search/product', payload) of the call p of the caller s for
\* a page: the request interceptor calls getValidToken, which reads the
\* clock; with a fresh token the request leaves with it in its header,
\* otherwise fetchToken starts POST /oauth/token and the call suspends at
\* that await, the request for the page not yet sent
post(s, p, page) ==
    IF TokenIsFresh(admin.token, admin.tokenExpiresAt, admin.clock)
    THEN /\ paging' = [paging EXCEPT ![s] =
                         <<[p EXCEPT !.pc = "post", !.page = page,
                                     !.requested = Append(@,
                                         [limit |-> IF p.limit = NoLimit THEN pageSize
                                                    ELSE p.limit,
                                          page |-> page,
                                          authorization |-> Authorization(admin.token)])]>>]
         /\ admin' = admin
    ELSE /\ admin.fetches < MaxFetches
         /\ paging' = [paging EXCEPT ![s] =
                         <<[p EXCEPT !.pc = "token", !.page = page,
                                     !.now = admin.clock]>>]
         /\ admin' = [admin EXCEPT !.fetches = @ + 1]

\* searchProducts(term, limit) of a caller that has no call under way: with
\* a limit one request without a page, without a limit the request for
\* page 1; the call suspends at the await of this.post. term, exact and
\* includeAllFields shape the payload's term, filter and includes and
\* nothing else
searchProducts(s, limit) ==
    /\ paging[s] = <<>>
    /\ post(s, [limit |-> limit, pc |-> "entered", page |-> 0, now |-> 0,
                all |-> <<>>, total |-> 0, requested |-> <<>>,
                answers |-> <<>>, result |-> <<>>],
            IF limit = NoLimit THEN 1 ELSE 0)
    /\ UNCHANGED <<serverVars, ingest>>

\* POST /oauth/token answers the interceptor of the call: token and
\* tokenExpiresAt are assigned, the expiry from the clock getValidToken read
\* before the fetch, and the request for the page leaves with the new token
fetchTokenResolvesForSearch(s, tokenResp) ==
    /\ paging[s] # <<>>
    /\ paging[s][1].pc = "token"
    /\ admin' = [admin EXCEPT
           !.token = tokenResp.access_token,
           !.tokenExpiresAt = paging[s][1].now + tokenResp.expires_in * 1000,
           !.answered = @ \cup {[tokenResp |-> tokenResp, now |-> paging[s][1].now]}]
    /\ paging' = [paging EXCEPT ![s] =
                     <<[paging[s][1] EXCEPT
                          !.pc = "post",
                          !.now = 0,
                          !.requested = Append(@,
                              [limit |-> IF paging[s][1].limit = NoLimit THEN pageSize
                                         ELSE paging[s][1].limit,
                               page |-> paging[s][1].page,
                               authorization |-> Authorization(tokenResp.access_token)])]>>]
    /\ UNCHANGED <<serverVars, ingest>>

\* POST /oauth/token fails: getValidToken, the interceptor and this.post
\* reject, the request for the page is not sent and searchProducts rejects
fetchTokenRejectsForSearch(s) ==
    /\ paging[s] # <<>>
    /\ paging[s][1].pc = "token"
    /\ paging' = [paging EXCEPT ![s] = <<[paging[s][1] EXCEPT !.pc = "thrown"]>>]
    /\ UNCHANGED <<serverVars, admin, ingest>>

\* the loop left only when the accumulated items reach the total
PostSearchResolves_IgnoresEmptyPage(s, data) ==
    /\ paging[s] # <<>>
    /\ paging[s][1].pc = "post"
    /\ data \in PageAnswers(paging[s][1].page)
    /\ IF paging[s][1].limit # NoLimit
       THEN /\ paging' = [paging EXCEPT ![s] =
                            <<[paging[s][1] EXCEPT !.pc = "returned",
                                                   !.answers = Append(@, data),
                                                   !.result = <<data>>]>>]
            /\ admin' = admin
       ELSE LET items == IF data.hasData THEN data.data ELSE <<>>
                total == IF data.hasTotal THEN data.total ELSE Len(items)
                all == paging[s][1].all \o items
            IN  IF Len(all) >= total
                THEN /\ paging' = [paging EXCEPT ![s] =
                                     <<[paging[s][1] EXCEPT
                                          !.pc = "returned", !.total = total, !.all = all,
                                          !.answers = Append(@, data),
                                          !.result = <<[total |-> total, data |-> all]>>]>>]
                     /\ admin' = admin
                ELSE /\ paging[s][1].page < MaxPages
                     /\ post(s, [paging[s][1] EXCEPT
                                    !.total = total, !.all = all,
                                    !.answers = Append(@, data)],
                             paging[s][1].page + 1)
    /\ UNCHANGED <<serverVars, ingest>>

\* POST /search/product answers: with a limit the answer is returned as it
\* is; without one the items are appended, and the call returns or goes on
\* to this.post for the next page. The backend gives an answer that ends
\* the loop at page MaxPages at the latest
PostSearchResolves(s, data) ==
    /\ paging[s] # <<>>
    /\ paging[s][1].pc = "post"
    /\ data \in PageAnswers(paging[s][1].page)
    /\ IF paging[s][1].limit # NoLimit
       THEN /\ paging' = [paging EXCEPT ![s] =
                            <<[paging[s][1] EXCEPT !.pc = "returned",
                                                   !.answers = Append(@, data),
                                                   !.result = <<data>>]>>]
            /\ admin' = admin
       ELSE LET items == IF data.hasData THEN data.data ELSE <<>>
                total == IF data.hasTotal THEN data.total ELSE Len(items)
                all == paging[s][1].all \o items
            IN  IF Len(all) >= total \/ Len(items) = 0
                THEN /\ paging' = [paging EXCEPT ![s] =
                                     <<[paging[s][1] EXCEPT
                                          !.pc = "returned", !.total = total, !.all = all,
                                          !.answers = Append(@, data),
                                          !.result = <<[total |-> total, data |-> all]>>]>>]
                     /\ admin' = admin
                ELSE /\ paging[s][1].page < MaxPages
                     /\ post(s, [paging[s][1] EXCEPT
                                    !.total = total, !.all = all,
                                    !.answers = Append(@, data)],
                             paging[s][1].page + 1)
    /\ UNCHANGED <<serverVars, ingest>>

\* POST /search/product fails, or runs into the timeout of the client:
\* searchProducts rejects
PostSearchRejects(s) ==
    /\ paging[s] # <<>>
    /\ paging[s][1].pc = "post"
    /\ paging' = [paging EXCEPT ![s] = <<[paging[s][1] EXCEPT !.pc = "thrown"]>>]
    /\ UNCHANGED <<serverVars, admin, ingest>>

\* the caller has the result or the error
SearchLeaves(s) ==
    /\ paging[s] # <<>>
    /\ paging[s][1].pc \in {"returned", "thrown"}
    /\ paging' = [paging EXCEPT ![s] = <<>>]
    /\ UNCHANGED <<serverVars, admin, ingest>>

\* the request the call of s awaits, for a token or for a page, is answered
\* or fails
PostSearchSettles(s) ==
    \/ \E tokenResp \in TokenResponses : fetchTokenResolvesForSearch(s, tokenResp)
    \/ fetchTokenRejectsForSearch(s)
    \/ \E data \in AllPageAnswers : PostSearchResolves(s, data)
    \/ PostSearchRejects(s)

\* the calls of the caller s1, one after the other, on a client whose
\* token answers are stale on arrival or last, so that a page finds the
\* token fresh or starts POST /oauth/token; the backend answers the last
\* page of the model with an empty page or with enough items. The calls
\* run within one reading of the clock; the expiry of a token by the
\* passing of time is the matter of SpecAdmin
NextPaging ==
    \/ \E limit \in SearchLimits : searchProducts("s1", limit)
    \/ \E tokenResp \in TokenResponses : fetchTokenResolvesForSearch("s1", tokenResp)
    \/ fetchTokenRejectsForSearch("s1")
    \/ \E data \in AllPageAnswers : PostSearchResolves("s1", data)
    \/ PostSearchRejects("s1")
    \/ SearchLeaves("s1")

SpecPaging == Init /\ [][NextPaging]_vars

\* every request a call awaits is answered or fails: the request for a page
\* at the latest by the timeout of the client, the request for a token when
\* the token endpoint answers or the connection breaks
SpecPagingFair == SpecPaging /\ \A s \in Searches : WF_vars(PostSearchSettles(s))

(***************************************************************************)
(* Vocabulary of the properties                                            *)
(***************************************************************************)
\* the handler has answered the call of the observed connection: its
\* arguments and the handler's result
Open == call[Observed] # <<>> /\ call[Observed][1].pc = "done"
CallArgs == call[Observed][1].args
CallResult == call[Observed][1].result[1]

\* the resolved fitment fields of the open call
Brand == parsedBrand(CallArgs)
Model == parsedModel(CallArgs)
Variant == parsedVariant(CallArgs)

\* the records that passed the name, brand and model filters, and all filters
Matched == FitmentHits(products, CallArgs)
MatchedAll == Hits(products, CallArgs)

\* no limit argument: the display cap is above every catalog of the model
Uncapped == CallArgs.limit = NoLimit

\* the response projection of the records of xs that satisfy Keep
ViewsOf(xs, Keep(_)) ==
    LET kept == SelectSeq(xs, Keep)
    IN  [i \in 1..Len(kept) |-> ProductView(kept[i])]

\* the lines of a text: what stands between two line feeds that follow each
\* other, before the first and after the last
Lines(text) ==
    LET breaks == {0, Len(text) + 1} \cup {i \in 1..Len(text) : text[i] = "\n"}
    IN  {SubSeq(text, a + 1, b - 1) :
            <<a, b>> \in {ab \in breaks \X breaks :
                            /\ ab[1] < ab[2]
                            /\ ~\E c \in breaks : ab[1] < c /\ c < ab[2]}}

\* the ways to write the elements of a set in a row
Orders(S) == {f \in [1..Cardinality(S) -> S] : Range(f) = S}

\* the distinct non-blank models of a sequence of records
ModelsOf(xs) == {xs[i].vehicleModel : i \in {j \in 1..Len(xs) : ~IsBlank(xs[j].vehicleModel)}}

\* the labels of the variants of the records of model m: a variant's own
\* text, 'base variant' for a blank one
LabelsOf(xs, m) ==
    {IF IsBlank(xs[i].vehicleVariant) THEN BaseVariantLabel ELSE xs[i].vehicleVariant :
        i \in {j \in 1..Len(xs) : xs[j].vehicleModel = m}}

\* the labels of the variants of all records
AllLabelsOf(xs) ==
    {IF IsBlank(xs[i].vehicleVariant) THEN BaseVariantLabel ELSE xs[i].vehicleVariant :
        i \in 1..Len(xs)}

\* a model with the labels of its variants is a line of the text
ListsModel(text, m, labels) ==
    \E order \in Orders(labels) :
        (<<" ">> \o m \o <<" ", "(">> \o Join(order, <<",", " ">>) \o <<")">>) \in Lines(text)

\* the fields a prompt is decided on: no variant, a brand and a model
PromptFields == ~Truthy(Variant) /\ Truthy(Brand) /\ Truthy(Model)

\* the response is a prompt: nothing structured although records matched
IsPrompt ==
    /\ CallResult.structuredContent = EmptyStructured
    /\ Len(MatchedAll) > 0

(***************************************************************************)
(* Properties                                                              *)
(***************************************************************************)
\* C1: a call that gives a brand but no model, no variant and no vehicleText,
\* over a catalog whose matching products span two or more models, is
\* answered with total 0, no products, and a text that lists every model.
C1_BrandOnlyPromptsForModel ==
    (/\ Open
     /\ Truthy(Brand)
     /\ CallArgs.vehicleModel = Undefined
     /\ CallArgs.vehicleVariant = Undefined
     /\ CallArgs.vehicleText = Undefined
     /\ Cardinality(ModelsOf(Matched)) >= 2)
    => /\ CallResult.structuredContent = EmptyStructured
       /\ \A m \in ModelsOf(Matched) : ListsModel(CallResult.text, m, LabelsOf(Matched, m))

\* C2: a prompt (total 0, no products, although records matched) is returned
\* only when no variant is resolved, a brand and a model are, and a record
\* passed the name, brand and model filters; every other response, and every
\* response to a call with a variant, reports the number of records that
\* passed all filters as its total.
C2_PromptOnlyUnderGuard ==
    Open =>
        /\ IsPrompt => (PromptFields /\ Len(Matched) > 0)
        /\ ~IsPrompt => CallResult.structuredContent.total = Len(MatchedAll)
        /\ Truthy(Variant) => CallResult.structuredContent.total = Len(MatchedAll)

C2_Witness ==
    /\ Open
    /\ IsPrompt
    /\ Len(Matched) > 1

\* C3: with no variant, a brand and a model, matches that carry more than one
\* distinct non-blank model are answered with total 0 and no products, and
\* the text has one line per model with the labels of that model's variants,
\* 'base variant' among them exactly when a match of that model has a blank
\* variant.
C3_MultiModelPrompt ==
    (Open /\ PromptFields /\ Cardinality(ModelsOf(Matched)) > 1)
    => /\ CallResult.structuredContent = EmptyStructured
       /\ \A m \in ModelsOf(Matched) : ListsModel(CallResult.text, m, LabelsOf(Matched, m))

C3_Witness ==
    /\ Open /\ PromptFields
    /\ Len(Matched) = 3
    /\ Cardinality(ModelsOf(Matched)) = 2
    /\ \E m \in ModelsOf(Matched) : BaseVariantLabel \notin LabelsOf(Matched, m)
    /\ \E m \in ModelsOf(Matched) :
           BaseVariantLabel \in LabelsOf(Matched, m) /\ Cardinality(LabelsOf(Matched, m)) = 2
    /\ CallResult.structuredContent = EmptyStructured

\* C4: with no variant, a brand and a model, matches of exactly one model
\* with more than one variant (all blank variants counting as one) are
\* answered with total 0 and no products, and the lines of the text after
\* its heading are the variants, 'base variant' standing for a blank one.
C4_MultiVariantPrompt ==
    (/\ Open /\ PromptFields
     /\ Cardinality(ModelsOf(Matched)) = 1
     /\ Cardinality(AllLabelsOf(Matched)) > 1)
    => /\ CallResult.structuredContent = EmptyStructured
       /\ \A label \in AllLabelsOf(Matched) : (<<" ">> \o label) \in Lines(CallResult.text)
       /\ (<<" ">> \o BaseVariantLabel) \in Lines(CallResult.text)
              <=> \E i \in 1..Len(Matched) : IsBlank(Matched[i].vehicleVariant)

C4_Witness ==
    /\ Open /\ PromptFields
    /\ Cardinality(ModelsOf(Matched)) = 1
    /\ AllLabelsOf(Matched) = {BaseVariantLabel, <<"G", "T", "I">>}
    /\ CallResult.structuredContent = EmptyStructured

\* C5: with no variant, a brand and a model, matches that all carry the same
\* model and the same variant are returned as products: the total is their
\* number, at least one, and the product list is not empty.
C5_SingleCombinationResolved ==
    (/\ Open /\ PromptFields
     /\ Len(Matched) >= 1
     /\ Cardinality({<<Matched[i].vehicleModel, Matched[i].vehicleVariant>> :
                        i \in 1..Len(Matched)}) = 1)
    => /\ CallResult.structuredContent.total = Len(Matched)
       /\ CallResult.structuredContent.total >= 1
       /\ Len(CallResult.structuredContent.products) >= 1

C5_Witness ==
    /\ Open /\ PromptFields
    /\ Len(Matched) = 2
    /\ Cardinality({<<Matched[i].vehicleModel, Matched[i].vehicleVariant>> :
                       i \in 1..Len(Matched)}) = 1
    /\ CallResult.structuredContent.total = 2

\* the words of a name that count: lower case, longer than one code unit
NameTokens(name) ==
    {w \in Range(SplitWhitespace(ToLowerCase(name))) : Len(w) > 1}

\* only the name is given: neither fitment field nor vehicleText nor limit
NameOnly ==
    /\ CallArgs.vehicleBrand = Undefined
    /\ CallArgs.vehicleModel = Undefined
    /\ CallArgs.vehicleVariant = Undefined
    /\ CallArgs.vehicleText = Undefined
    /\ Uncapped

\* the four base-variant synonyms
BaseSynonyms == {normalizeText(baseVariantTerms[i]) : i \in 1..Len(baseVariantTerms)}

\* C6: a call whose variant is, after normalization, one of 'standard',
\* 'base', 'basic', 'base variant' is answered with exactly the records that
\* passed the name, brand and model filters and have a blank vehicleVariant,
\* in catalog order; no record with a variant of its own is among them.
C6_BaseSynonymSelectsBlank ==
    (Open /\ Uncapped /\ Truthy(Variant) /\ normalizeText(Variant) \in BaseSynonyms)
    => /\ CallResult.structuredContent.products
              = ViewsOf(Matched, LAMBDA p : IsBlank(p.vehicleVariant))
       /\ CallResult.structuredContent.total = Len(CallResult.structuredContent.products)
       /\ \A i \in 1..Len(CallResult.structuredContent.products) :
              CallResult.structuredContent.products[i].vehicleVariant = <<>>

C6_Witness ==
    /\ Open /\ Uncapped
    /\ Truthy(Variant) /\ normalizeText(Variant) \in BaseSynonyms
    /\ \E i \in 1..Len(Matched) :
           Includes(normalizeText(Matched[i].vehicleVariant), <<"b", "a", "s", "e">>)
    /\ CallResult.structuredContent.total >= 1

\* C7: a call whose variant is not blank and is, after normalization, none
\* of the four synonyms is answered with exactly the records that passed the
\* name, brand and model filters and whose normalized vehicleVariant contains
\* the normalized variant.
C7_OrdinaryVariantIsSubstring ==
    (Open /\ Uncapped /\ Truthy(Variant) /\ normalizeText(Variant) \notin BaseSynonyms)
    => CallResult.structuredContent.products
           = ViewsOf(Matched, LAMBDA p :
                 Includes(normalizeText(p.vehicleVariant), normalizeText(Variant)))

\* C8: a record is returned for a name only if its normalized product name
\* contains every word of the name (lower case, longer than one code unit);
\* a call that gives only a name returns exactly these records.
C8_NameFilterIsConjunctive ==
    Open =>
        LET Passes(p) == \A w \in NameTokens(CallArgs.name) :
                             Includes(normalizeText(p.productName), w)
            shown == CallResult.structuredContent.products
        IN  /\ \A i \in 1..Len(shown) : Passes([productName |-> shown[i].name])
            /\ NameOnly => shown = ViewsOf(products, Passes)

C8_Witness ==
    /\ Open /\ NameOnly
    /\ Cardinality(NameTokens(CallArgs.name)) = 2
    /\ Len(CallResult.structuredContent.products) = 1
    /\ \E i \in 1..Len(products) :
           /\ \E w \in NameTokens(CallArgs.name) :
                  Includes(normalizeText(products[i].productName), w)
           /\ \E w \in NameTokens(CallArgs.name) :
                  ~Includes(normalizeText(products[i].productName), w)

\* C9: name matching ignores case and diacritical marks on both sides: a
\* call that gives only a name returns exactly the records whose normalized
\* product name contains every word of the name in its normalized form.
C9_NameMatchIgnoresDiacritics ==
    (Open /\ NameOnly)
    => CallResult.structuredContent.products
           = ViewsOf(products, LAMBDA p :
                 \A w \in NameTokens(CallArgs.name) :
                     Includes(normalizeText(p.productName), normalizeText(w)))

\* C10: the brand and the model filter keep exactly the records whose
\* normalized vehicleBrand / vehicleModel contains the normalized resolved
\* value; a missing or blank brand or model filters nothing, and the call is
\* answered by a result, never by the error response.
C10_BrandModelFiltersOptional ==
    (Open /\ Uncapped /\ ~Truthy(Variant)) =>
        LET named == NameFilter(products, CallArgs.name)
            Keeps(p) ==
                /\ Truthy(Brand) =>
                       Includes(normalizeText(p.vehicleBrand), normalizeText(Brand))
                /\ Truthy(Model) =>
                       Includes(normalizeText(p.vehicleModel), normalizeText(Model))
            shown == CallResult.structuredContent.products
        IN  /\ Matched = SelectSeq(named, Keeps)
            /\ (Truthy(Brand) /\ Truthy(Model)) => shown \in {ViewsOf(named, Keeps), <<>>}
            /\ ~(Truthy(Brand) /\ Truthy(Model)) =>
                   /\ shown = ViewsOf(named, Keeps)
                   /\ CallResult.structuredContent.total = Len(shown)
            /\ CallResult # ErrorResponse

C10_Witness ==
    /\ Open /\ Uncapped /\ ~Truthy(Variant)
    /\ Truthy(Brand) /\ ~Truthy(Model)
    /\ CallArgs.vehicleModel # Undefined
    /\ Len(NameFilter(products, CallArgs.name)) = 3
    /\ Len(CallResult.structuredContent.products) = 2

\* the display cap of the open call: the limit brought into 1..100, 20
\* when the call gives none
Cap ==
    LET limit == CallArgs.limit
    IN  IF limit = NoLimit THEN 20
        ELSE IF limit < 1 THEN 1
        ELSE IF limit > 100 THEN 100
        ELSE limit

\* the smaller of two numbers
Min(a, b) == IF a <= b THEN a ELSE b

\* C11: in every response that is neither a prompt nor the error response,
\* total is the number of records that passed all filters, products is the
\* first min(total, cap) of them for cap = the limit clamped into 1..100
\* (20 without a limit), and total = Len(products) whenever total <= cap.
C11_TotalVersusCap ==
    (Open /\ ~IsPrompt /\ CallResult # ErrorResponse) =>
        LET total == CallResult.structuredContent.total
            shown == CallResult.structuredContent.products
        IN  /\ total = Len(MatchedAll)
            /\ Len(shown) = Min(total, Cap)
            /\ \A i \in 1..Len(shown) : shown[i] = ProductView(MatchedAll[i])
            /\ total <= Cap => total = Len(shown)

C11_Witness ==
    /\ Open /\ ~IsPrompt /\ CallResult # ErrorResponse
    /\ CallArgs.limit = 2
    /\ CallResult.structuredContent.total = 3
    /\ Len(CallResult.structuredContent.products) = 2

\* C12: the returned products are a subsequence of the catalog in its load
\* order: of two returned records the one that comes first in the catalog
\* comes first in structuredContent.products.
C12_ResultKeepsLoadOrder ==
    Open =>
        LET shown == CallResult.structuredContent.products
        IN  \E at \in [1..Len(shown) -> 1..Len(products)] :
                /\ \A i \in 1..Len(shown) : shown[i] = ProductView(products[at[i]])
                /\ \A i, j \in 1..Len(shown) : i < j => at[i] < at[j]

C12_Witness ==
    /\ Open
    /\ Len(CallResult.structuredContent.products) = 2
    /\ Len(products) = 3
    /\ CallResult.structuredContent.products[1] = ProductView(products[1])
    /\ CallResult.structuredContent.products[2] = ProductView(products[3])
    /\ CodeUnitLess(products[3].productNumber, products[1].productNumber)

\* a structured field is supplied: present and not the empty string
Given(x) == x # Undefined /\ x # <<>>

\* a supplied field as the filters see it: without the white space around it
AsSupplied(x) == IF x = Undefined THEN Undefined ELSE Trim(x)

\* the tokens of a text: its maximal runs of units that are not white space,
\* from left to right
Words(text) ==
    LET n == IF text = Undefined THEN 0 ELSE Len(text)
        starts == {i \in 1..n : ~IsSpace(text[i]) /\ (i = 1 \/ IsSpace(text[i - 1]))}
        EndOf(s) == CHOOSE e \in s..n :
                        /\ \A k \in s..e : ~IsSpace(text[k])
                        /\ (e = n \/ IsSpace(text[e + 1]))
        Nth(k) == CHOOSE s \in starts : Cardinality({t \in starts : t < s}) = k - 1
    IN  [k \in 1..Cardinality(starts) |-> SubSeq(text, Nth(k), EndOf(Nth(k)))]

\* C13: whatever the vehicleText, a brand, model or variant given as a
\* structured argument is the resolved one, and the one the records are
\* filtered on: every returned product carries the given brand and the given
\* model; the text fills only fields that were not given.
C13_ExplicitFieldsWin ==
    Open =>
        LET shown == CallResult.structuredContent.products
        IN  /\ Given(CallArgs.vehicleBrand) =>
                   /\ Brand = Trim(CallArgs.vehicleBrand)
                   /\ \A i \in 1..Len(shown) :
                          Includes(normalizeText(shown[i].vehicleBrand),
                                   normalizeText(Trim(CallArgs.vehicleBrand)))
            /\ Given(CallArgs.vehicleModel) =>
                   /\ Model = Trim(CallArgs.vehicleModel)
                   /\ \A i \in 1..Len(shown) :
                          Includes(normalizeText(shown[i].vehicleModel),
                                   normalizeText(Trim(CallArgs.vehicleModel)))
            /\ Given(CallArgs.vehicleVariant) =>
                   Variant = Trim(CallArgs.vehicleVariant)

C13_Witness ==
    /\ Open
    /\ CallArgs.vehicleBrand = <<"B", "M", "W">>
    /\ CallArgs.vehicleModel = Undefined
    /\ Words(CallArgs.vehicleText) = <<VW, Golf, <<"G", "T", "I">>>>
    /\ Brand = <<"B", "M", "W">> /\ Model = Golf /\ Variant = <<"G", "T", "I">>
    /\ \E i \in 1..Len(products) :
           /\ products[i].vehicleBrand = VW
           /\ products[i].vehicleModel = Golf
           /\ products[i].vehicleVariant = <<"G", "T", "I">>
    /\ CallResult.structuredContent.total = 0

\* the fields the claim resolves a call to
ExpectedBrand ==
    LET w == Words(CallArgs.vehicleText)
    IN  IF Len(w) >= 2 /\ ~Given(CallArgs.vehicleBrand) THEN w[1]
        ELSE AsSupplied(CallArgs.vehicleBrand)
ExpectedModel ==
    LET w == Words(CallArgs.vehicleText)
    IN  IF Len(w) >= 2 /\ ~Given(CallArgs.vehicleModel) THEN w[2]
        ELSE AsSupplied(CallArgs.vehicleModel)
ExpectedVariant ==
    LET w == Words(CallArgs.vehicleText)
    IN  IF Len(w) > 2 /\ ~Given(CallArgs.vehicleVariant)
        THEN Join(SubSeq(w, 3, Len(w)), <<" ">>)
        ELSE AsSupplied(CallArgs.vehicleVariant)

\* C14: a vehicleText of fewer than two tokens assigns nothing, brand, model
\* and variant stay as supplied; with two or more tokens the first fills a
\* missing brand, the second a missing model, and the tokens from the third
\* on, joined by single spaces, a missing variant when there are more than
\* two; the call is answered as the call that gives the resolved fields
\* and no vehicleText.
C14_FitmentParsingByTokenCount ==
    (Open /\ CallArgs.vehicleText # Undefined) =>
        /\ Brand = ExpectedBrand
        /\ Model = ExpectedModel
        /\ Variant = ExpectedVariant
        /\ CallResult = SearchProductCatalog(products,
               Args(CallArgs.name, CallArgs.limit,
                    ExpectedBrand, ExpectedModel, ExpectedVariant, Undefined))

C14_Witness ==
    /\ Open
    /\ Len(Words(CallArgs.vehicleText)) = 4
    /\ \E i \in 1..Len(CallArgs.vehicleText) - 1 :
           IsSpace(CallArgs.vehicleText[i]) /\ IsSpace(CallArgs.vehicleText[i + 1])
    /\ CallArgs.vehicleBrand = Undefined
    /\ CallArgs.vehicleModel = Undefined
    /\ CallArgs.vehicleVariant = Undefined
    /\ Brand = VW
    /\ Model = Golf
    /\ Variant = <<"b", "a", "s", "e", " ", "v", "a", "r", "i", "a", "n", "t">>
    /\ CallResult.structuredContent.total = 1

\* the single record that passed all filters, as the response shows it
TheMatch == ProductView(MatchedAll[1])

\* exactly one record matched
SingleMatch == Open /\ CallResult # ErrorResponse /\ Len(MatchedAll) = 1

FoundOneProduct == <<"F", "o", "u", "n", "d", " ", "o", "n", "e", " ", "p", "r", "o", "d", "u", "c", "t", ":", " ">>

\* C15 as stated: when exactly one record matches, the text is 'Found one
\* product: <cleanName> for <brand> <model> <variant> (<SKU>)' with each of
\* the three fitment fields followed by one space, so that a blank variant
\* leaves two spaces before the parenthesis.
C15_SingleMatchFieldsEachSpaced ==
    SingleMatch =>
        /\ CallResult.structuredContent.total = 1
        /\ CallResult.text =
               FoundOneProduct \o cleanName(TheMatch.name) \o <<" ", "f", "o", "r", " ">>
               \o TheMatch.vehicleBrand \o <<" ">>
               \o TheMatch.vehicleModel \o <<" ">>
               \o TheMatch.vehicleVariant \o <<" ">>
               \o <<"(">> \o TheMatch.productNumber \o <<")">>

\* C15, amended: when exactly one record matches, total is 1 and the text
\* is 'Found one product: <cleanName> for <vehicle> (<SKU>)', where
\* <vehicle> is '<brand> <model> <variant>' without the white space at its
\* ends: one space stands before the parenthesis also for a blank variant.
C15_SingleMatchText ==
    SingleMatch =>
        /\ CallResult.structuredContent.total = 1
        /\ CallResult.structuredContent.products = <<TheMatch>>
        /\ CallResult.text =
               FoundOneProduct \o cleanName(TheMatch.name) \o <<" ", "f", "o", "r", " ">>
               \o Trim(TheMatch.vehicleBrand \o <<" ">> \o TheMatch.vehicleModel
                       \o <<" ">> \o TheMatch.vehicleVariant)
               \o <<" ", "(">> \o TheMatch.productNumber \o <<")">>

C15_Witness ==
    /\ Open
    /\ products = <<[productNumber |-> <<"A", "1">>, productName |-> <<"B", "r", "a", "k", "e", " ", "P", "a", "d", " ", "F", "r", "o", "n", "t">>, vehicleBrand |-> <<"V", "W">>, vehicleModel |-> <<"G", "o", "l", "f">>, vehicleVariant |-> <<>>]>>
    /\ CallArgs = Args(BrakePad, NoLimit, VW, Golf, Undefined, Undefined)
    /\ CallResult.structuredContent.total = 1
    /\ CallResult.text = <<"F", "o", "u", "n", "d", " ", "o", "n", "e", " ", "p", "r", "o", "d", "u", "c", "t", ":", " ", "B", "r", "a", "k", "e", " ", "P", "a", "d", " ", "F", "r", "o", "n", "t", " ", "f", "o", "r", " ", "V", "W", " ", "G", "o", "l", "f", " ", "(", "A", "1", ")">>

\* the products of the response
Shown == CallResult.structuredContent.products

\* several records matched and the response is a result
ManyMatch ==
    /\ Open /\ CallResult # ErrorResponse /\ ~IsPrompt
    /\ Len(MatchedAll) > 1

\* the lines of a text after its first line
LinesAfterFirst(text) ==
    LET feeds == {i \in 1..Len(text) : text[i] = "\n"}
        first == CHOOSE i \in feeds : \A j \in feeds : i <= j
    IN  IF feeds = {} THEN {} ELSE Lines(SubSeq(text, first + 1, Len(text)))

\* the number of line feeds of a text
LineFeeds(text) == Cardinality({i \in 1..Len(text) : text[i] = "\n"})

\* what a line says of a product: its clean name and its vehicle
Description(p) ==
    cleanName(p.name) \o <<" ", "f", "o", "r", " ">>
    \o Trim(p.vehicleBrand \o <<" ">> \o p.vehicleModel \o <<" ">> \o p.vehicleVariant)

\* the tuple the products are grouped by
TupleOf(p) == <<cleanName(p.name), p.vehicleBrand, p.vehicleModel, p.vehicleVariant>>

\* the product numbers, in display order, of the displayed products at the
\* positions of a set
NumbersAt(positions) ==
    LET Nth(k) == CHOOSE i \in positions : Cardinality({j \in positions : j < i}) = k - 1
    IN  [k \in 1..Cardinality(positions) |-> Shown[Nth(k)].productNumber]

\* the line of a group: its description and its product numbers
GroupLine(description, numbers) ==
    <<" ">> \o description \o <<" ", "(">> \o Join(numbers, <<",", " ">>) \o <<")">>

\* the structured payload lists every displayed product on its own
ShownSeparately ==
    /\ Len(Shown) = Min(Len(MatchedAll), Cap)
    /\ \A i \in 1..Len(Shown) : Shown[i] = ProductView(MatchedAll[i])

\* C16 as stated: when several records match, two displayed products share
\* a text line if and only if their (cleanName, brand, model, variant)
\* tuples are identical: the text has one line per tuple, with the product
\* numbers of the tuple comma-joined in display order, and the structured
\* products list every displayed product separately.
C16_GroupedByTuple ==
    ManyMatch =>
        LET SameTuple(i) == {j \in 1..Len(Shown) : TupleOf(Shown[j]) = TupleOf(Shown[i])}
        IN  /\ LinesAfterFirst(CallResult.text) =
                   {GroupLine(Description(Shown[i]), NumbersAt(SameTuple(i))) :
                       i \in 1..Len(Shown)}
            /\ LineFeeds(CallResult.text) =
                   Cardinality({TupleOf(Shown[i]) : i \in 1..Len(Shown)})
            /\ ShownSeparately

\* C16, amended: when several records match, two displayed products share a
\* text line if and only if their descriptions '<cleanName> for <brand>
\* <model> <variant>' (white space at the ends removed) are the same text;
\* products of identical tuples always share a line, and so do products of
\* different tuples that read the same.  Each line lists the product
\* numbers of its group comma-joined in display order, and the structured
\* products list every displayed product separately.
C16_GroupedByDescription ==
    ManyMatch =>
        LET SameText(i) == {j \in 1..Len(Shown) : Description(Shown[j]) = Description(Shown[i])}
        IN  /\ LinesAfterFirst(CallResult.text) =
                   {GroupLine(Description(Shown[i]), NumbersAt(SameText(i))) :
                       i \in 1..Len(Shown)}
            /\ LineFeeds(CallResult.text) =
                   Cardinality({Description(Shown[i]) : i \in 1..Len(Shown)})
            /\ \A i, j \in 1..Len(Shown) :
                   TupleOf(Shown[i]) = TupleOf(Shown[j]) =>
                       Description(Shown[i]) = Description(Shown[j])
            /\ ShownSeparately

C16_Witness ==
    /\ ManyMatch
    /\ Len(Shown) = 3
    /\ CallResult.structuredContent.total = 3
    /\ Shown[1].productNumber = <<"A", "1">>
    /\ Shown[3].productNumber = <<"A", "2">>
    /\ TupleOf(Shown[1]) = TupleOf(Shown[3])
    /\ Shown[1].name # Shown[3].name
    /\ LinesAfterFirst(CallResult.text) =
           {<<" ", "B", "r", "a", "k", "e", " ", "P", "a", "d", " ", "F", "r", "o", "n", "t", " ", "f", "o", "r", " ", "V", "W", " ", "G", "o", "l", "f", " ", "(", "A", "1", ",", " ", "A", "2", ")">>,
            GroupLine(Description(Shown[2]), <<Shown[2].productNumber>>)}

\* the lines of a text from the first to the last
SeqLines(text) ==
    LET feeds == {i \in 1..Len(text) : text[i] = "\n"}
        breaks == {0, Len(text) + 1} \cup feeds
        Nth(k) == CHOOSE b \in breaks : Cardinality({c \in breaks : c < b}) = k - 1
    IN  [k \in 1..Cardinality(feeds) + 1 |-> SubSeq(text, Nth(k) + 1, Nth(k + 1) - 1)]

\* the list of a prompt: its lines between the heading and the empty line
\* that stands before the question
PromptList ==
    LET ls == SeqLines(CallResult.text)
    IN  SubSeq(ls, 2, Len(ls) - 2)

\* alphabetical order: the order of a dictionary, in which upper and lower
\* case of a letter stand together
Alphabetical(xs) == \A i, j \in 1..Len(xs) : i < j => LocaleLess(xs[i], xs[j])

\* the prompt for the model, and the prompt for the variant
MultiModelPrompt == Open /\ IsPrompt /\ Cardinality(ModelsOf(Matched)) > 1
MultiVariantPrompt == Open /\ IsPrompt /\ Cardinality(ModelsOf(Matched)) = 1

\* C17: in the prompt for the model the models are listed in alphabetical
\* order of their names, and behind each model its variants in alphabetical
\* order of their names.
C17_ModelPromptSorted ==
    MultiModelPrompt =>
        \E ms \in Orders(ModelsOf(Matched)) :
            /\ Alphabetical(ms)
            /\ Len(PromptList) = Len(ms)
            /\ \A k \in 1..Len(ms) :
                   \E vs \in Orders(LabelsOf(Matched, ms[k])) :
                       /\ Alphabetical(vs)
                       /\ PromptList[k] = GroupLine(ms[k], vs)

\* C18 as stated: in the prompt for the variant the variant names, with
\* 'base variant' for a blank one, stand in alphabetical order.
C18_VariantPromptAlphabetical ==
    MultiVariantPrompt =>
        \E vs \in Orders(AllLabelsOf(Matched)) :
            /\ Alphabetical(vs)
            /\ PromptList = [k \in 1..Len(vs) |-> <<" ">> \o vs[k]]

\* a vector call is open: its fields
VectorOpen == vcall # <<>>
VectorDone == VectorOpen /\ vcall[1].pc = "done"
VectorFailed == VectorOpen /\ vcall[1].caught # <<>>

\* the zero-result response that tells of an error
FailureResponse(err) ==
    [structuredContent |-> [total |-> 0, products |-> <<>>],
     text |-> <<"V", "e", "c", "t", "o", "r", " ", "s", "e", "a", "r", "c", "h", " ", "f", "a", "i", "l", "e", "d", ":", " ">> \o err.message]

\* C19: when the embedding call or the index query throws, the handler of
\* search-product-vector does not throw: it returns total 0, no products
\* and the text 'Vector search failed: ' followed by the error's message;
\* the handler is never left by an exception.
C19_VectorFailureContained ==
    /\ VectorFailed =>
           /\ vcall[1].pc = "done"
           /\ vcall[1].outcome.kind = "return"
           /\ vcall[1].outcome.value = FailureResponse(vcall[1].caught[1])
    /\ VectorDone => vcall[1].outcome.kind = "return"

C19_Witness ==
    /\ VectorFailed
    /\ vcall[1].queryEmbedding # Undefined
    /\ vcall[1].tableSearches = 1
    /\ vcall[1].caught[1] \in IndexErrors
    /\ vcall[1].outcome =
           Returned([structuredContent |-> [total |-> 0, products |-> <<>>],
                     text |-> <<"V", "e", "c", "t", "o", "r", " ", "s", "e", "a", "r", "c", "h", " ", "f", "a", "i", "l", "e", "d", ":", " ", "T", "a", "b", "l", "e", " ", "n", "o", "t", " ", "f", "o", "u", "n", "d">>])

\* C20: a search-product-vector request calls the embedding service exactly
\* once; the index is queried at most once and only after the embedding
\* arrived; when the embedding call fails the request ends in the
\* zero-result response with no second call and no index query.
C20_NoRetryInVectorPath ==
    VectorOpen =>
        /\ vcall[1].embedCalls = 1
        /\ vcall[1].tableSearches = (IF vcall[1].queryEmbedding = Undefined THEN 0 ELSE 1)
        /\ (vcall[1].pc # "embed" /\ vcall[1].queryEmbedding = Undefined) =>
               /\ vcall[1].pc = "done"
               /\ vcall[1].caught # <<>>
               /\ vcall[1].caught[1] \in EmbedErrors
               /\ vcall[1].tableSearches = 0
               /\ vcall[1].outcome = Returned(FailureResponse(vcall[1].caught[1]))

C20_Witness ==
    /\ VectorDone
    /\ vcall[1].queryEmbedding = Undefined
    /\ vcall[1].caught # <<>>
    /\ vcall[1].embedCalls = 1
    /\ vcall[1].tableSearches = 0
    /\ vcall[1].outcome.value.structuredContent = [total |-> 0, products |-> <<>>]

\* the index answered the open vector call
VectorAnswered == VectorDone /\ vcall[1].caught = <<>>

\* a hit survives the filters of the call: its brand and model contain the
\* call's brand and model, and its variant the call's variant when one is
\* given, all without regard to case
Survives(r, args) ==
    /\ Includes(ToLowerCase(r.vehicleBrand), ToLowerCase(args.vehicleBrand))
    /\ Includes(ToLowerCase(r.vehicleModel), ToLowerCase(args.vehicleModel))
    /\ Given(args.vehicleVariant) =>
           Includes(ToLowerCase(r.vehicleVariant), ToLowerCase(args.vehicleVariant))

\* the positions of the surviving hits, and the k-th of them
SurvivorsAt == {i \in 1..Len(vcall[1].hits) : Survives(vcall[1].hits[i], vcall[1].args)}
NthSurvivor(k) ==
    vcall[1].hits[CHOOSE i \in SurvivorsAt : Cardinality({j \in SurvivorsAt : j < i}) = k - 1]

\* C21: search-product-vector never asks for a model or a variant: for all
\* hits of the index it returns every hit that survives the brand, model
\* and (if given) variant filters, in index order, with total the number
\* of returned products, also when the survivors are of several models or
\* variants.
C21_VectorSearchIsFlat ==
    VectorAnswered =>
        LET response == vcall[1].outcome.value
            shown == response.structuredContent.products
        IN  /\ vcall[1].outcome.kind = "return"
            /\ Len(shown) = Cardinality(SurvivorsAt)
            /\ \A k \in 1..Len(shown) : shown[k] = NthSurvivor(k)
            /\ response.structuredContent.total = Len(shown)

C21_Witness ==
    /\ VectorAnswered
    /\ vcall[1].args.vehicleVariant = Undefined
    /\ Len(vcall[1].hits) = 2
    /\ Cardinality(SurvivorsAt) = 2
    /\ vcall[1].hits[1].vehicleModel # vcall[1].hits[2].vehicleModel
    /\ IsBlank(vcall[1].hits[2].vehicleVariant) /\ ~IsBlank(vcall[1].hits[1].vehicleVariant)
    /\ vcall[1].outcome.value.structuredContent.total = 2
    /\ CodeUnitLess(vcall[1].hits[2].productNumber, vcall[1].hits[1].productNumber)

\* C22: while the server is serving, no step changes the catalog: after
\* every request, and whatever requests came before it, the catalog is the
\* one loaded at startup, and the response of a request is the value the
\* handler computes from that request's arguments and that catalog.
C22_CatalogReadOnlyWhileServing ==
    [][/\ phase = "serving" => (products' = products /\ phase' = "serving")
       /\ \A c \in Connections :
              (/\ call'[c] # <<>>
               /\ call'[c][1].result # <<>>
               /\ call'[c] # call[c]) =>
                  /\ call[c] # <<>>
                  /\ call[c][1].pc = "handle"
                  /\ call'[c][1].args = call[c][1].args
                  /\ call'[c][1].result =
                         <<SearchProductCatalog(products', call'[c][1].args)>>]_vars

\* a call is answered from the whole catalog while another connection has
\* an exchange with other arguments under way
C22_Witness ==
    /\ Open
    /\ phase = "serving"
    /\ Len(products) = 3
    /\ Len(MatchedAll) = 2
    /\ CallResult.structuredContent.total = 2
    /\ MatchedAll[1] = products[2] /\ MatchedAll[2] = products[3]
    /\ call["c2"] # <<>>
    /\ call["c2"][1].pc = "handle"
    /\ call["c2"][1].args # CallArgs

\* the catalog file cannot be loaded: it is missing or its parse has errors
BadFile(file) == ~file.exists \/ file.errors > 0

\* C23: when the catalog file is missing or its parse reports an error, the
\* registration of the plugins throws and the server does not come to
\* serve.
C23_CatalogLoadFailFast ==
    [][\A file \in CsvFiles, opens \in BOOLEAN :
           (BadFile(file) /\ buildServer(file, opens)) => phase' # "serving"]_vars

(***************************************************************************)
(* Following a prompt                                                      *)
(***************************************************************************)
\* the question that ends the prompt for the model
ModelQuestion == <<"W", "h", "i", "c", "h", " ", "m", "o", "d", "e", "l", " ", "a", "n", "d", " ", "v", "a", "r", "i", "a", "n", "t", " ", "i", "s", " ", "y", "o", "u", "r", " ", "v", "e", "h", "i", "c", "l", "e", "?">>

\* a response is the prompt for the model
AsksForModel(response) ==
    /\ response.structuredContent = EmptyStructured
    /\ SeqLines(response.text)[Len(SeqLines(response.text))] = ModelQuestion

\* the answer to the open call with the model replaced by m
WithModel(m) == SearchProductCatalog(products, [CallArgs EXCEPT !.vehicleModel = m])

\* C24: after a prompt for the model, the same call with the model set to
\* any one of the models of the prompt (and still no variant) is answered
\* with something other than a prompt for the model.
C24_ListedModelResolvesModel ==
    (MultiModelPrompt /\ ~Truthy(CallArgs.vehicleVariant))
    => \A m \in ModelsOf(Matched) : ~AsksForModel(WithModel(m))

\* the answer to the open call with the variant replaced by label
WithVariant(label) == SearchProductCatalog(products, [CallArgs EXCEPT !.vehicleVariant = label])

\* C25: after a prompt for the variant, the same call with the variant set
\* to any label of the prompt returns at least one product, and every
\* product it returns has that variant, a blank one for 'base variant'.
C25_ListedVariantSelectsItsProducts ==
    MultiVariantPrompt =>
        \A label \in AllLabelsOf(Matched) :
            LET answer == WithVariant(label).structuredContent
            IN  /\ answer.total >= 1
                /\ \A i \in 1..Len(answer.products) :
                       IF label = BaseVariantLabel
                       THEN IsBlank(answer.products[i].vehicleVariant)
                       ELSE answer.products[i].vehicleVariant = label

\* the display cap for a limit argument
CapFor(limit) ==
    IF limit = NoLimit THEN 20
    ELSE IF limit < 1 THEN 1
    ELSE IF limit > 100 THEN 100
    ELSE limit

\* xs is the beginning of ys
IsPrefix(xs, ys) == Len(xs) <= Len(ys) /\ xs = SubSeq(ys, 1, Len(xs))

\* the answer to the open call with the limit replaced by l
WithLimit(l) == SearchProductCatalog(products, [CallArgs EXCEPT !.limit = l])

\* C26: a call that differs from the open call in the limit only is
\* answered with the same prompt when the open call is, and otherwise with
\* the same total and with products of which the list under the smaller cap
\* is the beginning of the list under the larger cap.
C26_LimitOnlyCutsTheList ==
    Open =>
        \A l \in {NoLimit, 1, 3} :
            LET other == WithLimit(l)
                mine == CallResult.structuredContent.products
                theirs == other.structuredContent.products
            IN  IF IsPrompt THEN other = CallResult
                ELSE /\ other.structuredContent.total = CallResult.structuredContent.total
                     /\ IF CapFor(l) <= Cap THEN IsPrefix(theirs, mine)
                                            ELSE IsPrefix(mine, theirs)

C26_Witness ==
    /\ Open /\ ~IsPrompt
    /\ CallArgs.limit = 2
    /\ CallResult.structuredContent.total = 3
    /\ Len(CallResult.structuredContent.products) = 2
    /\ Len(WithLimit(NoLimit).structuredContent.products) = 3
    /\ Len(WithLimit(1).structuredContent.products) = 1
    /\ Cardinality(ModelsOf(MatchedAll)) = 2

\* C27: a name without a word longer than one code unit (empty, blank, or
\* one-letter words only) excludes no record: the records that pass all
\* filters are those that pass the brand, model and variant filters.
C27_ShortNameFiltersNothing ==
    (Open /\ CallArgs.name # Undefined /\ NameTokens(CallArgs.name) = {})
    => /\ MatchedAll = VariantFilter(ModelFilter(BrandFilter(products, Brand), Model), Variant)
       /\ (~Truthy(Brand) /\ ~Truthy(Model) /\ ~Truthy(Variant)) =>
              /\ CallResult.structuredContent.total = Len(products)
              /\ Len(Shown) = Len(products)

C27_Witness ==
    /\ Open
    /\ CallArgs.name = <<"x">>
    /\ CallArgs.vehicleBrand = VW
    /\ Len(products) = 3
    /\ \E i \in 1..3 : products[i].vehicleBrand = <<"A", "u", "d", "i">>
    /\ \A i \in 1..3 : ~Includes(normalizeText(products[i].productName), <<"x">>)
    /\ CallResult.structuredContent.total = 2

(***************************************************************************)
(* The admin client's token                                                *)
(***************************************************************************)
\* the cached pair is that of one answered fetch: its token, and its life
\* time counted from the clock reading of the call that fetched it
PairOfOneResponse(a) ==
    \/ a.token = Null /\ a.tokenExpiresAt = 0
    \/ \E f \in a.answered :
           /\ a.token = f.tokenResp.access_token
           /\ a.tokenExpiresAt = f.now + f.tokenResp.expires_in * 1000

\* every request that has left carries a token some fetch was answered with
SentWithToken(a) ==
    \A r \in 1..MaxRequests :
        a.requests[r].pc = "sent" =>
            /\ a.requests[r].authorization # <<"B", "e", "a", "r", "e", "r", " ", "n", "u", "l", "l">>
            /\ \E f \in a.answered :
                   a.requests[r].authorization
                       = <<"B", "e", "a", "r", "e", "r", " ">> \o f.tokenResp.access_token

\* C28: a request that calls getValidToken leaves with the cached token and
\* without a token fetch exactly when a token is cached and the clock is
\* more than 30 s before tokenExpiresAt, and otherwise starts one fetch;
\* the answer of a fetch sets token and tokenExpiresAt together, the expiry
\* counted from the clock reading taken before the fetch; in every
\* interleaving the cached pair is that of one answer and every request
\* that leaves carries a token.
C28_TokenCache ==
    [][/\ \A r \in 1..MaxRequests :
              (admin.requests[r].pc = "idle" /\ admin'.requests[r].pc # "idle") =>
                  IF admin.token # Null /\ admin.clock < admin.tokenExpiresAt - 30000
                  THEN /\ admin'.requests[r].pc = "sent"
                       /\ admin'.requests[r].authorization
                              = <<"B", "e", "a", "r", "e", "r", " ">> \o admin.token
                       /\ admin'.fetches = admin.fetches
                       /\ admin'.token = admin.token
                       /\ admin'.tokenExpiresAt = admin.tokenExpiresAt
                  ELSE /\ admin'.requests[r].pc = "fetch"
                       /\ admin'.requests[r].now = admin.clock
                       /\ admin'.fetches = admin.fetches + 1
       /\ \A r \in 1..MaxRequests :
              (admin.requests[r].pc = "fetch" /\ admin'.requests[r].pc = "sent") =>
                  \E tokenResp \in TokenResponses :
                      /\ admin'.token = tokenResp.access_token
                      /\ admin'.tokenExpiresAt
                             = admin.requests[r].now + tokenResp.expires_in * 1000
                      /\ admin'.requests[r].authorization
                             = <<"B", "e", "a", "r", "e", "r", " ">> \o tokenResp.access_token
       /\ PairOfOneResponse(admin')
       /\ SentWithToken(admin')]_vars

C28_Witness ==
    /\ admin.clock = 60000
    /\ admin.token = <<"t", "2">>
    /\ admin.tokenExpiresAt = 90000
    /\ \E f \in admin.answered : f.tokenResp.access_token = <<"t", "1">> /\ f.now = 30000
    /\ admin.requests[1].pc = "sent"
    /\ admin.requests[1].now = 60000
    /\ admin.requests[1].authorization = <<"B", "e", "a", "r", "e", "r", " ", "t", "1">>
    /\ admin.requests[2].pc = "sent"
    /\ admin.requests[2].now = 0
    /\ admin.requests[2].authorization = <<"B", "e", "a", "r", "e", "r", " ", "t", "2">>

(***************************************************************************)
(* The retry loop of the ingestion                                         *)
(***************************************************************************)
\* processBatch is in its retry loop: a call is under way or a backoff runs
InRetryLoop == ingest # <<>> /\ ingest[1].pc \in {"embed", "backoff"}

\* C29: processBatch calls the embedding service at most three times for a
\* batch and not again after a call succeeded; after the third failure in a
\* row it rethrows the error of that third call and the table is as it was
\* before the batch; and the retry loop is left in every run.
C29_RetryLoop ==
    /\ [](ingest # <<>> =>
             /\ ingest[1].calls <= 3
             /\ ingest[1].pc \in {"write", "returned"} =>
                    ingest[1].calls = Len(ingest[1].caught) + 1
             /\ Len(ingest[1].caught) = 3 =>
                    /\ ingest[1].pc = "thrown"
                    /\ ingest[1].thrown = <<ingest[1].caught[3]>>
                    /\ ingest[1].records = <<>>
             /\ (ingest[1].pc = "thrown" /\ Len(ingest[1].caught) < 3) =>
                    ingest[1].records # <<>>)
    /\ [][(ingest # <<>> /\ ingest' # <<>>) =>
             /\ ingest'[1].calls # ingest[1].calls =>
                    /\ ingest[1].pc = "backoff"
                    /\ ingest'[1].calls = ingest[1].calls + 1
                    /\ Len(ingest[1].caught) = ingest[1].calls
             /\ ingest'[1].table # ingest[1].table =>
                    /\ ingest[1].pc = "write"
                    /\ ingest'[1].pc = "returned"]_vars
    /\ (InRetryLoop ~> ~InRetryLoop)

C29_Witness ==
    /\ ingest # <<>>
    /\ ingest[1].pc = "thrown"
    /\ ingest[1].calls = 3
    /\ Len(ingest[1].caught) = 3
    /\ ingest[1].caught[1] = ingest[1].caught[2]
    /\ ingest[1].caught[3] # ingest[1].caught[1]
    /\ ingest[1].thrown = <<ingest[1].caught[3]>>
    /\ ingest[1].delays = <<2000, 3000>>
    /\ ingest[1].isFirstBatch
    /\ Len(ingest[1].batch) = 2
    /\ Len(ingest[1].table) = 1

(***************************************************************************)
(* The pages of searchProducts                                             *)
(***************************************************************************)
\* the items of an answer and the total it reports: no data field counts
\* as no items, no total field as the number of the answer's items
ItemsOf(answer) == IF answer.hasData THEN answer.data ELSE <<>>
ReportedTotal(answer) == IF answer.hasTotal THEN answer.total ELSE Len(ItemsOf(answer))

\* the items of the first n answers, in the order of the answers
RECURSIVE ItemsUpTo(_, _)
ItemsUpTo(answers, n) ==
    IF n = 0 THEN <<>> ELSE ItemsUpTo(answers, n - 1) \o ItemsOf(answers[n])

\* after the n-th answer the items reach the total it reports, or it is empty
StopsAt(answers, n) ==
    \/ Len(ItemsUpTo(answers, n)) >= ReportedTotal(answers[n])
    \/ Len(ItemsOf(answers[n])) = 0

\* the searchProducts call of s waits for a token or for the answer to a page
InSearch(s) == paging[s] # <<>> /\ paging[s][1].pc \in {"token", "post"}

\* C30: without a limit, searchProducts requests the pages 1, 2, 3, ... with
\* 250 items each, one after the other, each with the bearer token of the
\* interceptor; it returns after the first answer with which the items so
\* far reach the total that answer reports, or which is empty, and requests
\* no page after it; what it returns is that total and the items of all
\* answers in page order; and against a backend that answers every request
\* and gives such an answer at some page, every call ends.
C30_PagesInOrderUntilStop ==
    \A s \in Searches :
      /\ []((paging[s] # <<>> /\ paging[s][1].limit = NoLimit) =>
             LET p == paging[s][1]
                 n == Len(p.answers)
             IN  /\ \A i \in 1..Len(p.requested) :
                        /\ p.requested[i].limit = 250
                        /\ p.requested[i].page = i
                        /\ \E tokenResp \in TokenResponses :
                               p.requested[i].authorization =
                                   Authorization(tokenResp.access_token)
                 /\ p.pc = "post" => Len(p.requested) = n + 1
                 /\ p.pc \in {"token", "returned"} => Len(p.requested) = n
                 /\ p.pc = "thrown" => Len(p.requested) \in {n, n + 1}
                 /\ \A i \in 1..n :
                        StopsAt(p.answers, i) <=> (i = n /\ p.pc = "returned")
                 /\ p.pc = "returned" =>
                        p.result = <<[total |-> ReportedTotal(p.answers[n]),
                                      data  |-> ItemsUpTo(p.answers, n)]>>)
      /\ (InSearch(s) ~> ~InSearch(s))

\* three pages: the token fetched for the first is stale on arrival, the
\* one fetched for the second is still fresh for the third
C30_Witness ==
    /\ paging["s1"] # <<>>
    /\ paging["s1"][1].limit = NoLimit
    /\ paging["s1"][1].pc = "returned"
    /\ Len(paging["s1"][1].answers) = 3
    /\ ReportedTotal(paging["s1"][1].answers[1]) = 2
    /\ ReportedTotal(paging["s1"][1].answers[3]) = 3
    /\ ItemsOf(paging["s1"][1].answers[3]) = <<>>
    /\ paging["s1"][1].requested =
           <<[limit |-> 250, page |-> 1, authorization |-> Authorization(<<"t", "1">>)],
             [limit |-> 250, page |-> 2, authorization |-> Authorization(<<"t", "2">>)],
             [limit |-> 250, page |-> 3, authorization |-> Authorization(<<"t", "2">>)]>>
    /\ paging["s1"][1].result = <<[total |-> 3, data |-> <<<<1, 1>>, <<2, 1>>>>]>>
    /\ admin.fetches = 2
    /\ admin.answered =
           {[tokenResp |-> [access_token |-> <<"t", "1">>, expires_in |-> 30], now |-> 0],
            [tokenResp |-> [access_token |-> <<"t", "2">>, expires_in |-> 90], now |-> 0]}

====
